---- MODULE Spec2Model ----
(***************************************************************************)
(* Model of rfscope: FFT size planning (common/utils.py), Welch planning   *)
(* (dsp/spectral.py), the frame data model (common/models.py) and the      *)
(* spectrum codec (dsp/spectrum_codec.py).                                 *)
(*                                                                         *)
(* Python floats are binary floating point numbers rounded to nearest,     *)
(* ties to even.  The model keeps that arithmetic but with a significand   *)
(* of Prec bits instead of binary64's 53; Python ints are exact.           *)
(***************************************************************************)
EXTENDS Integers, Sequences, FiniteSets, TLC

\* ------------------------------------------------------------------------
\* Bounds of the model
\* ------------------------------------------------------------------------
\* significand width of the modelled floats
Prec == 16
\* largest Python int handed directly to the size strategies
MaxN == 250

\* ------------------------------------------------------------------------
\* Floating point values: finite m * 2^e (m odd, or m = 0), nan, +inf, -inf
\* ------------------------------------------------------------------------
RECURSIVE Pow(_, _)
Pow(b, n) == IF n <= 0 THEN 1 ELSE b * Pow(b, n - 1)

Abs(x) == IF x < 0 THEN -x ELSE x

Sgn(x) == IF x < 0 THEN -1 ELSE IF x = 0 THEN 0 ELSE 1

NaN == [k |-> "nan", m |-> 0, e |-> 0]

PInf == [k |-> "inf", m |-> 1, e |-> 0]

NInf == [k |-> "inf", m |-> -1, e |-> 0]

RECURSIVE Norm(_, _)
Norm(m, e) ==
    IF m = 0 THEN [k |-> "fin", m |-> 0, e |-> 0]
    ELSE IF m % 2 = 0 THEN Norm(m \div 2, e + 1)
    ELSE [k |-> "fin", m |-> m, e |-> e]

\* a * 2^e for a signed a, without rounding
Fin(a, e) == IF a < 0 THEN [Norm(-a, e) EXCEPT !.m = -@] ELSE Norm(a, e)

IsFin(x) == x.k = "fin"

IsNaN(x) == x.k = "nan"

RECURSIVE BitLen(_)
\* number of binary digits of n >= 0
BitLen(n) == IF n = 0 THEN 0 ELSE 1 + BitLen(n \div 2)

\* nearest Prec-bit float (ties to even) to (n + f) * 2^e, where n >= 0 and
\* 0 <= f < 1 with f > 0 exactly when sticky; a sticky n has over Prec bits
RoundS(n, sticky, e) ==
    IF BitLen(n) <= Prec THEN Norm(n, e)
    ELSE LET s == BitLen(n) - Prec
             q == n \div Pow(2, s)
             r == n % Pow(2, s)
             half == Pow(2, s - 1)
             up == (r > half) \/ (r = half /\ (sticky \/ q % 2 = 1))
         IN  Norm(IF up THEN q + 1 ELSE q, e + s)

\* low part width used to keep products inside the integer range
SplitBits == Prec \div 2 + 1

\* the float nearest to a * b * 2^e for integers a, b >= 0
MulR(a, b, e) ==
    IF BitLen(a) + BitLen(b) <= 30 THEN RoundS(a * b, FALSE, e)
    ELSE LET bh == b \div Pow(2, SplitBits)
             bl == b % Pow(2, SplitBits)
             hi == a * bh + ((a * bl) \div Pow(2, SplitBits))
             lo == (a * bl) % Pow(2, SplitBits)
         IN  RoundS(hi, lo # 0, e + SplitBits)

RECURSIVE LongDiv(_, _, _, _)
\* i more quotient digits of r / b appended to q: <<quotient, remainder>>
LongDiv(r, b, q, i) ==
    IF i = 0 THEN <<q, r>>
    ELSE LET bit == IF 2 * r >= b THEN 1 ELSE 0
         IN  LongDiv(2 * r - bit * b, b, 2 * q + bit, i - 1)

\* the float nearest to (a / b) * 2^e for integers a >= 0, b > 0
DivR(a, b, e) ==
    IF a = 0 THEN Norm(0, 0)
    ELSE LET la == BitLen(a)
             lb == BitLen(b)
             a1 == IF la < lb THEN a * Pow(2, lb - la) ELSE a
             b1 == IF la > lb THEN b * Pow(2, la - lb) ELSE b
             qr == LongDiv(a1 % b1, b1, a1 \div b1, Prec + 2)
         IN  RoundS(qr[1], qr[2] # 0, e + la - lb - (Prec + 2))

\* the float written as the decimal literal n / d (float("1.36") is 136 / 100)
Lit(n, d) == IF n < 0 THEN [DivR(-n, d, 0) EXCEPT !.m = -@] ELSE DivR(n, d, 0)

\* float(i) for a Python int i
FromInt(i) == Lit(i, 1)

FNeg(x) == IF IsNaN(x) THEN x ELSE [x EXCEPT !.m = -@]

\* x * y, one rounding
FMul(x, y) ==
    IF IsNaN(x) \/ IsNaN(y) THEN NaN
    ELSE IF ~IsFin(x) \/ ~IsFin(y)
         THEN IF x.m = 0 \/ y.m = 0 THEN NaN
              ELSE IF Sgn(x.m) * Sgn(y.m) > 0 THEN PInf ELSE NInf
    ELSE LET r == MulR(Abs(x.m), Abs(y.m), x.e + y.e)
         IN  IF Sgn(x.m) * Sgn(y.m) < 0 THEN FNeg(r) ELSE r

\* x / y for y # 0, one rounding (Python raises ZeroDivisionError on y = 0)
FDiv(x, y) ==
    IF IsNaN(x) \/ IsNaN(y) THEN NaN
    ELSE IF ~IsFin(x) THEN IF ~IsFin(y) THEN NaN
                           ELSE IF Sgn(x.m) * Sgn(y.m) >= 0 THEN PInf ELSE NInf
    ELSE IF ~IsFin(y) THEN Norm(0, 0)
    ELSE LET r == DivR(Abs(x.m), Abs(y.m), x.e - y.e)
         IN  IF Sgn(x.m) * Sgn(y.m) < 0 THEN FNeg(r) ELSE r

\* v.m * 2^(v.e - e) rounded down to an integer, and whether that lost bits
AlignTo(v, e) ==
    IF v.e >= e THEN [n |-> v.m * Pow(2, v.e - e), lost |-> FALSE]
    ELSE IF e - v.e > 30 THEN [n |-> IF v.m < 0 THEN -1 ELSE 0, lost |-> v.m # 0]
    ELSE [n |-> v.m \div Pow(2, e - v.e), lost |-> v.m % Pow(2, e - v.e) # 0]

\* the exponent just above the leading bit of a finite x
Top(x) == x.e + BitLen(Abs(x.m))

\* x + y, one rounding: the operands are aligned at the lower exponent, or
\* a few bits below the rounding position when they lie far apart
FAdd(x, y) ==
    IF IsNaN(x) \/ IsNaN(y) THEN NaN
    ELSE IF ~IsFin(x) THEN IF ~IsFin(y) /\ x.m # y.m THEN NaN ELSE x
    ELSE IF ~IsFin(y) THEN y
    ELSE IF x.m = 0 THEN y
    ELSE IF y.m = 0 THEN x
    ELSE LET lo == IF x.e < y.e THEN x.e ELSE y.e
             top == IF Top(x) > Top(y) THEN Top(x) ELSE Top(y)
             e == IF lo > top - (Prec + 4) THEN lo ELSE top - (Prec + 4)
             a == AlignTo(x, e)
             b == AlignTo(y, e)
             s == a.n + b.n
             lost == a.lost \/ b.lost
         IN  IF s >= 0 THEN RoundS(s, lost, e)
             ELSE FNeg(RoundS(IF lost THEN -s - 1 ELSE -s, lost, e))

\* sign of x - y for finite x, y (exact)
CmpFin(x, y) ==
    IF Sgn(x.m) # Sgn(y.m) THEN Sgn(Sgn(x.m) - Sgn(y.m))
    ELSE IF x.m = 0 THEN 0
    ELSE IF Top(x) # Top(y) THEN Sgn(x.m) * Sgn(Top(x) - Top(y))
    ELSE LET e == IF x.e < y.e THEN x.e ELSE y.e
         IN  Sgn(x.m * Pow(2, x.e - e) - y.m * Pow(2, y.e - e))

\* x < y as Python compares floats: every comparison with nan is false
FLt(x, y) ==
    IF IsNaN(x) \/ IsNaN(y) THEN FALSE
    ELSE IF ~IsFin(x) THEN x.m < 0 /\ ~(~IsFin(y) /\ y.m < 0)
    ELSE IF ~IsFin(y) THEN y.m > 0
    ELSE CmpFin(x, y) < 0

FLe(x, y) == ~IsNaN(x) /\ ~IsNaN(y) /\ (x = y \/ FLt(x, y))

FZero == Norm(0, 0)

\* math.ceil / math.floor of a finite float, as an exact integer
Ceil(x) ==
    IF x.e >= 0 THEN x.m * Pow(2, x.e)
    ELSE -((-x.m) \div Pow(2, -x.e))

Floor(x) ==
    IF x.e >= 0 THEN x.m * Pow(2, x.e)
    ELSE x.m \div Pow(2, -x.e)

\* int(x): truncation toward zero
Trunc(x) == IF x.m < 0 THEN Ceil(x) ELSE Floor(x)

RECURSIVE FloorLog(_, _)
\* largest k with b^k <= n, for n >= 1
FloorLog(n, b) == IF n < b THEN 0 ELSE 1 + FloorLog(n \div b, b)

\* ------------------------------------------------------------------------
\* Python values handed to the functions: int, bool, float, str, None
\* ------------------------------------------------------------------------
PyInt(n) == [t |-> "int", i |-> n, f |-> FZero, s |-> ""]

PyBool(b) == [t |-> "bool", i |-> IF b THEN 1 ELSE 0, f |-> FZero, s |-> ""]

PyFloat(x) == [t |-> "float", i |-> 0, f |-> x, s |-> ""]

PyStr(s) == [t |-> "str", i |-> 0, f |-> FZero, s |-> s]

PyNone == [t |-> "none", i |-> 0, f |-> FZero, s |-> ""]

\* isinstance(v, (int, float)); bool is a subclass of int
IsNumber(v) == v.t \in {"int", "bool", "float"}

\* isinstance(v, int)
IsInt(v) == v.t \in {"int", "bool"}

\* float(v) of a number
AsFloat(v) == IF v.t = "float" THEN v.f ELSE FromInt(v.i)

\* v > 0 of a number
GtZero(v) == IF v.t = "float" THEN FLt(FZero, v.f) ELSE v.i > 0

\* a returned int, or a raised exception
Ret(n) == [ok |-> TRUE, v |-> n, err |-> "none"]

Raise(exc) == [ok |-> FALSE, v |-> 0, err |-> exc]

\* ------------------------------------------------------------------------
\* FFTSizePlanner (common/utils.py)
\* ------------------------------------------------------------------------
\* math.ceil(math.log2(y)) for a finite float y >= 2.  With y = 2^k * (1 + d),
\* log2(y) = k + d / ln 2 to first order; the float result is k itself when
\* that excess is under half the spacing of floats at k (ln 2 = 0.693...).
Log2Ceil(y) ==
    LET b == BitLen(y.m) - 1
        k == y.e + b
        j == y.m - Pow(2, b)
        t == (BitLen(k) - 1) + b - Prec
    IN  IF j = 0 THEN k
        ELSE IF t >= 0 /\ j * 1000 < 693 * Pow(2, t) THEN k
        ELSE k + 1

FTwo == Fin(2, 0)

next_pow2(n_min) ==
    IF ~(IsNumber(n_min) /\ GtZero(n_min)) THEN Raise("ValueError")
    ELSE LET x == AsFloat(n_min)
             y == IF FLt(FTwo, x) THEN x ELSE FTwo
         IN  IF ~IsFin(y) THEN Raise("OverflowError")
             ELSE Ret(Pow(2, Log2Ceil(y)))

\* the n at which binary64 log(n) / log(3) lands just under the integer
LogShort3 == {243, 59049, 1594323}

\* int(math.log(n, base)) for an int n >= 1
IntLog(n, base) ==
    FloorLog(n, base) - (IF base = 3 /\ n \in LogShort3 THEN 1 ELSE 0)

max_exp_tight(n_target, base) == IntLog(n_target, base)

\* max_exp2, max_exp3, max_exp5: the exponent bounds with their headroom
max_exp(n_target, base) == IntLog(n_target, base) + 2

RECURSIVE LoopC_strict(_, _, _, _)
LoopC_strict(pow3, c, n_target, best) ==
    IF c > max_exp(n_target, 5) THEN best
    ELSE LET n == pow3 * Pow(5, c)
         IN  LoopC_strict(pow3, c + 1, n_target,
                          IF n > n_target /\ (best = 0 \/ n < best) THEN n ELSE best)

RECURSIVE LoopC(_, _, _, _)
\* for c in range(max_exp5 + 1), from c on; best = 0 stands for None
LoopC(pow3, c, n_target, best) ==
    IF c > max_exp(n_target, 5) THEN best
    ELSE LET n == pow3 * Pow(5, c)
         IN  LoopC(pow3, c + 1, n_target,
                   IF n >= n_target /\ (best = 0 \/ n < best) THEN n ELSE best)

RECURSIVE LoopB(_, _, _, _)
\* for b in range(max_exp3 + 1), from b on, with its break
LoopB(pow2, b, n_target, best) ==
    IF b > max_exp(n_target, 3) THEN best
    ELSE LET pow3 == pow2 * Pow(3, b)
         IN  IF best # 0 /\ pow3 > best THEN best
             ELSE LoopB(pow2, b + 1, n_target, LoopC(pow3, 0, n_target, best))

RECURSIVE LoopA(_, _, _)
\* for a in range(max_exp2 + 1), from a on, with its break
LoopA(a, n_target, best) ==
    IF a > max_exp(n_target, 2) THEN best
    ELSE LET pow2 == Pow(2, a)
         IN  IF best # 0 /\ pow2 > best THEN best
             ELSE LoopA(a + 1, n_target, LoopB(pow2, 0, n_target, best))

next_5smooth(n_min) ==
    IF ~(IsNumber(n_min) /\ GtZero(n_min)) THEN Raise("ValueError")
    ELSE LET x == AsFloat(n_min)
         IN  IF ~IsFin(x) THEN Raise("OverflowError")
             ELSE LET c == Ceil(x)
                      n_target == IF c > 1 THEN c ELSE 1
                      best == LoopA(0, n_target, 0)
                  IN  IF best = 0 THEN Raise("AssertionError") ELSE Ret(best)

\* ------------------------------------------------------------------------
\* Capture / Welch planning (common/utils.py, dsp/spectral.py)
\* ------------------------------------------------------------------------
Windows == {"rect", "hann", "hamming", "blackman"}

\* ENBW: window name -> equivalent noise bandwidth factor
ENBW(window) ==
    CASE window = "rect" -> Lit(100, 100)
      [] window = "hann" -> Lit(150, 100)
      [] window = "hamming" -> Lit(136, 100)
      [] window = "blackman" -> Lit(173, 100)

\* the callable attributes getattr finds on the class FFTSizePlanner: its two
\* methods and what it inherits from object (of those, the two that take one
\* argument); "__doc__" and "__module__" are attributes that are not callable
CallableAttrs == {"next_pow2", "next_5smooth", "__sizeof__", "__init__"}

\* getattr(FFTSizePlanner, size_planner, None) is callable
IsStrategy(size_planner) == size_planner \in CallableAttrs

\* int(planner(nfft_min)): object.__sizeof__ of a float is its size in bytes,
\* object.__init__ returns None, which int() refuses
CallStrategy(size_planner, nfft_min) ==
    CASE size_planner = "next_pow2" -> next_pow2(PyFloat(nfft_min))
      [] size_planner = "next_5smooth" -> next_5smooth(PyFloat(nfft_min))
      [] size_planner = "__sizeof__" -> Ret(24)
      [] OTHER -> Raise("TypeError")

\* min(a, b, c) as Python evaluates it: a later item replaces the running
\* minimum only when it compares less, so a nan keeps or loses by position
PyMin3(a, b, c) ==
    LET ab == IF FLt(b, a) THEN b ELSE a
    IN  IF FLt(c, ab) THEN c ELSE ab

\* the argument checks shared by both planners; "none" when all pass
ArgError(a) ==
    IF a.window \notin Windows THEN "ValueError"
    ELSE IF ~(FLe(FZero, a.overlap) /\ FLt(a.overlap, Fin(1, 0))) THEN "ValueError"
    ELSE IF ~(IsInt(a.K) /\ a.K.i >= 1) THEN "ValueError"
    ELSE IF FLe(PyMin3(a.rbw_hz, a.fs_hz, a.bw_hz), FZero) THEN "ValueError"
    ELSE "none"

\* nfft_min = enbw * fs_hz / rbw_hz
nfft_min(a) == FDiv(FMul(ENBW(a.window), a.fs_hz), a.rbw_hz)

noverlap_ceil(a, nperseg) == Ceil(FMul(a.overlap, FromInt(nperseg)))

\* noverlap = int(overlap * nperseg)
noverlap(a, nperseg) == Trunc(FMul(a.overlap, FromInt(nperseg)))

rbw_eff_no_enbw(a, nfft) == FDiv(a.fs_hz, FromInt(nfft))

\* rbw_eff = enbw * fs_hz / nfft
rbw_eff(a, nfft) == FDiv(FMul(ENBW(a.window), a.fs_hz), FromInt(nfft))

\* chunks = max(1, math.ceil(bw_hz / fs_hz))
chunks(a) ==
    LET c == Ceil(FDiv(a.bw_hz, a.fs_hz))
    IN  IF c > 1 THEN c ELSE 1

\* math.ceil(bw_hz / fs_hz): the exception it raises for a quotient that is
\* nan or infinite, "none" when it raises none
ChunksError(a) ==
    IF IsNaN(FDiv(a.bw_hz, a.fs_hz)) THEN "ValueError"
    ELSE IF ~IsFin(FDiv(a.bw_hz, a.fs_hz)) THEN "OverflowError"
    ELSE "none"

NoPlan ==
    [sample_rate |-> FZero, samples |-> 0, rbw_eff |-> FZero, time |-> FZero]

\* what a planner call did: the exception it raised ("none": it returned),
\* how often it invoked the size strategy, and the record it returned
PlanRaise(exc, n) == [err |-> exc, strategy_calls |-> n, plan |-> NoPlan]

plan_capture_parameters(a) ==
    IF ArgError(a) # "none" THEN PlanRaise(ArgError(a), 0)
    ELSE IF ~IsStrategy(a.size_planner) THEN PlanRaise("ValueError", 0)
    ELSE LET r == CallStrategy(a.size_planner, nfft_min(a))
         IN  IF ~r.ok THEN PlanRaise(r.err, 1)
             ELSE IF r.v <= 0 THEN PlanRaise("ValueError", 1)
             ELSE LET nfft == r.v
                      nperseg == nfft
                      step == nperseg - noverlap(a, nperseg)
                      samples_per_chunk == nperseg + (a.K.i - 1) * step
                      time_per_chunk == FDiv(FromInt(samples_per_chunk), a.fs_hz)
                  IN  IF step <= 0 THEN PlanRaise("ValueError", 1)
                      ELSE IF ChunksError(a) # "none"
                      THEN PlanRaise(ChunksError(a), 1)
                      ELSE [err |-> "none", strategy_calls |-> 1,
                            plan |-> [sample_rate |-> a.fs_hz,
                                      samples |-> chunks(a) * samples_per_chunk,
                                      rbw_eff |-> rbw_eff(a, nfft),
                                      time |-> FMul(FromInt(chunks(a)),
                                                    time_per_chunk)]]

NoWelch ==
    [window |-> "", nperseg |-> 0, noverlap |-> 0, nfft |-> 0,
     scaling |-> "", average |-> ""]

WelchRaise(exc, n) == [err |-> exc, strategy_calls |-> n, plan |-> NoWelch]

plan_welch_parameters(a) ==
    IF ArgError(a) # "none" THEN WelchRaise(ArgError(a), 0)
    ELSE IF ~IsStrategy(a.size_planner) THEN WelchRaise("ValueError", 0)
    ELSE LET r == CallStrategy(a.size_planner, nfft_min(a))
         IN  IF ~r.ok THEN WelchRaise(r.err, 1)
             ELSE LET nfft == r.v
                      nperseg == nfft
                      step == nperseg - noverlap(a, nperseg)
                  IN  IF step <= 0 THEN WelchRaise("ValueError", 1)
                      ELSE [err |-> "none", strategy_calls |-> 1,
                            plan |-> [window |-> a.window, nperseg |-> nperseg,
                                      noverlap |-> noverlap(a, nperseg),
                                      nfft |-> nfft, scaling |-> "density",
                                      average |-> "mean"]]

\* ------------------------------------------------------------------------
\* Concurrent invocations of the planner functions, statement by statement
\* ------------------------------------------------------------------------
\* the number of threads that invoke the functions at the same time
NThreads == 2

Tids == 1..NThreads

Locals_shared(t) == 1

\* where the local variables of thread t's invocation live: each call has a
\* frame of its own
Locals(t) == t

\* the local variables of one invocation
NoLocals ==
    [n_target |-> 0, a |-> 0, best |-> 0, nfft_min |-> FZero, nfft |-> 0,
     noverlap |-> 0]

\* a thread's invocation: the function, its arguments, the statement it is
\* at, what it returned or raised, and whether it ran a statement while
\* another invocation was in progress
Thread(fn, n_min, args, pc, size, capture, welch) ==
    [fn |-> fn, n_min |-> n_min, args |-> args, pc |-> pc, size |-> size,
     capture |-> capture, welch |-> welch, overlapped |-> FALSE]

\* a step of an invocation: the thread and its locals after it
Stepped(T, L) == [t |-> T, l |-> L]

\* next_pow2, statement by statement
StepPow2(T, L) ==
    IF T.pc = "check" THEN
        IF ~(IsNumber(T.n_min) /\ GtZero(T.n_min))
        THEN Stepped([T EXCEPT !.pc = "done", !.size = Raise("ValueError")], L)
        ELSE Stepped([T EXCEPT !.pc = "return"], L)
    ELSE Stepped([T EXCEPT !.pc = "done", !.size = next_pow2(T.n_min)], L)

\* next_5smooth, statement by statement; the loop over a takes one step per
\* iteration
Step5Smooth(T, L) ==
    CASE T.pc = "check" ->
           IF ~(IsNumber(T.n_min) /\ GtZero(T.n_min))
           THEN Stepped([T EXCEPT !.pc = "done", !.size = Raise("ValueError")], L)
           ELSE Stepped([T EXCEPT !.pc = "target"], L)
      [] T.pc = "target" ->
           IF ~IsFin(AsFloat(T.n_min))
           THEN Stepped([T EXCEPT !.pc = "done", !.size = Raise("OverflowError")], L)
           ELSE Stepped([T EXCEPT !.pc = "loop"],
                        [L EXCEPT !.n_target = IF Ceil(AsFloat(T.n_min)) > 1
                                               THEN Ceil(AsFloat(T.n_min)) ELSE 1,
                                  !.a = 0, !.best = 0])
      [] T.pc = "loop" ->
           IF L.a > max_exp(L.n_target, 2) \/ (L.best # 0 /\ Pow(2, L.a) > L.best)
           THEN Stepped([T EXCEPT !.pc = "done",
                                  !.size = IF L.best = 0 THEN Raise("AssertionError")
                                           ELSE Ret(L.best)], L)
           ELSE Stepped(T, [L EXCEPT !.best = LoopB(Pow(2, L.a), 0, L.n_target, L.best),
                                     !.a = L.a + 1])

\* a planner raises exc after n invocations of the size strategy
Failed(T, L, exc, n) ==
    Stepped([T EXCEPT !.pc = "done",
                      !.capture = IF T.fn = "plan_capture_parameters"
                                  THEN PlanRaise(exc, n) ELSE @,
                      !.welch = IF T.fn = "plan_welch_parameters"
                                THEN WelchRaise(exc, n) ELSE @], L)

\* a check of the arguments: raise exc, or go on with the statement next
Guarded(T, L, exc, next) ==
    IF exc # "none" THEN Failed(T, L, exc, 0)
    ELSE Stepped([T EXCEPT !.pc = next], L)

\* nfft = int(planner(nfft_min)), r being what the strategy did
Sized(T, L, r) ==
    IF ~r.ok THEN Failed(T, L, r.err, 1)
    ELSE IF T.fn = "plan_capture_parameters" /\ r.v <= 0
    THEN Failed(T, L, "ValueError", 1)
    ELSE Stepped([T EXCEPT !.pc = "noverlap"], [L EXCEPT !.nfft = r.v])

\* noverlap = int(overlap * nperseg) and the check of the step
Lapped(T, L, nov) ==
    IF L.nfft - nov <= 0 THEN Failed(T, L, "ValueError", 1)
    ELSE Stepped([T EXCEPT !.pc = "return"], [L EXCEPT !.noverlap = nov])

\* the record plan_capture_parameters returns, from its locals
ReturnCapture(T, L, samples_per_chunk, n_chunks) ==
    Stepped([T EXCEPT
               !.pc = "done",
               !.capture =
                   [err |-> "none", strategy_calls |-> 1,
                    plan |-> [sample_rate |-> T.args.fs_hz,
                              samples |-> n_chunks * samples_per_chunk,
                              rbw_eff |-> rbw_eff(T.args, L.nfft),
                              time |-> FMul(FromInt(n_chunks),
                                            FDiv(FromInt(samples_per_chunk),
                                                 T.args.fs_hz))]]], L)

\* the record plan_welch_parameters returns, from its locals
ReturnWelch(T, L) ==
    Stepped([T EXCEPT
               !.pc = "done",
               !.welch = [err |-> "none", strategy_calls |-> 1,
                          plan |-> [window |-> T.args.window, nperseg |-> L.nfft,
                                    noverlap |-> L.noverlap, nfft |-> L.nfft,
                                    scaling |-> "density", average |-> "mean"]]], L)

\* plan_capture_parameters and plan_welch_parameters, statement by
\* statement: the former looks the strategy up before it computes nfft_min,
\* the latter after
StepPlanner(T, L) ==
    CASE T.pc = "check" ->
           Guarded(T, L, ArgError(T.args),
                   IF T.fn = "plan_capture_parameters" THEN "lookup"
                   ELSE "nfft_min")
      [] T.pc = "lookup" ->
           Guarded(T, L,
                   IF IsStrategy(T.args.size_planner) THEN "none" ELSE "ValueError",
                   IF T.fn = "plan_capture_parameters" THEN "nfft_min" ELSE "nfft")
      [] T.pc = "nfft_min" ->
           Stepped([T EXCEPT !.pc = IF T.fn = "plan_capture_parameters"
                                    THEN "nfft" ELSE "lookup"],
                   [L EXCEPT !.nfft_min = nfft_min(T.args)])
      [] T.pc = "nfft" -> Sized(T, L, CallStrategy(T.args.size_planner, L.nfft_min))
      [] T.pc = "noverlap" -> Lapped(T, L, noverlap(T.args, L.nfft))
      [] T.pc = "return" ->
           IF T.fn = "plan_capture_parameters" /\ ChunksError(T.args) # "none"
           THEN Failed(T, L, ChunksError(T.args), 1)
           ELSE IF T.fn = "plan_capture_parameters"
           THEN ReturnCapture(T, L,
                              L.nfft + (T.args.K.i - 1) * (L.nfft - L.noverlap),
                              chunks(T.args))
           ELSE ReturnWelch(T, L)

\* the next statement of the invocation T with the locals L
Statement(T, L) ==
    CASE T.fn = "next_pow2" -> StepPow2(T, L)
      [] T.fn = "next_5smooth" -> Step5Smooth(T, L)
      [] OTHER -> StepPlanner(T, L)

\* ------------------------------------------------------------------------
\* Objects behind references: NumPy arrays, lists and dicts (common/models.py)
\* ------------------------------------------------------------------------
\* the number of objects a frame, the frame derived from it and their caller
\* hold between them
MaxObj == 8

Obj(kind, ndim, dtype, vals, items) ==
    [kind |-> kind, ndim |-> ndim, dtype |-> dtype, vals |-> vals, items |-> items]

Free == Obj("free", 0, "", <<>>, {})

\* a 1-D ndarray of the given dtype
NdArray(dtype, vals) == Obj("ndarray", 1, dtype, vals, {})

\* a dict: its items as <<key, value>> pairs
Dict(items) == Obj("dict", 0, "", <<>>, items)

EmptyHeap == [i \in 1..MaxObj |-> Free]

\* the reference a new object gets
Alloc(h) == CHOOSE i \in 1..MaxObj :
                h[i].kind = "free" /\ \A j \in 1..(i - 1) : h[j].kind # "free"

FloatDTypes == {"float16", "float32", "float64"}

\* significand bits of a dtype: float64 is the working float, the narrower
\* dtypes keep fewer bits (float16 its 11 when the working float has 16)
SigBits(dtype) ==
    CASE dtype = "float16" -> Prec - 5
      [] dtype = "float32" -> Prec - 3
      [] OTHER -> Prec

\* exponent of the largest and of the smallest normal power of two
EMax(dtype) ==
    CASE dtype = "float16" -> 15
      [] dtype = "float32" -> 127
      [] OTHER -> 1023

EMin(dtype) == 1 - EMax(dtype)

\* a * 2^e with the s low bits of a dropped, to nearest, ties to even
DropBits(a, s) ==
    IF s <= 0 THEN a
    ELSE IF s > BitLen(a) + 1 THEN 0
    ELSE LET q == a \div Pow(2, s)
             r == a % Pow(2, s)
             half == Pow(2, s - 1)
         IN  IF r > half \/ (r = half /\ q % 2 = 1) THEN q + 1 ELSE q

\* ndarray.astype(dtype) on one element: rounds to the dtype's significand,
\* gradually below its normal range, and overflows to inf above it
CastTo(x, dtype) ==
    IF ~IsFin(x) \/ x.m = 0 \/ dtype \notin FloatDTypes THEN x
    ELSE LET a == Abs(x.m)
             p == SigBits(dtype)
             s1 == BitLen(a) - p
             s2 == (EMin(dtype) - p + 1) - x.e
             s == IF s1 > s2 THEN s1 ELSE s2
             r == IF s <= 0 THEN x ELSE Norm(Sgn(x.m) * DropBits(a, s), x.e + s)
         IN  IF r.m # 0 /\ r.e + BitLen(Abs(r.m)) - 1 > EMax(dtype)
             THEN (IF x.m > 0 THEN PInf ELSE NInf)
             ELSE r

RECURSIVE CastAll(_, _)
CastAll(vals, dtype) ==
    IF vals = <<>> THEN <<>>
    ELSE <<CastTo(Head(vals), dtype)>> \o CastAll(Tail(vals), dtype)

\* _ensure_np_array(x, np.float64): an ndarray that already has the dtype is
\* returned as it is, anything else is converted into a new array
\* returns the heap and the reference of the result
ensure_np_array(h, x) ==
    IF h[x].kind = "ndarray" /\ h[x].dtype = "float64" THEN [heap |-> h, ref |-> x]
    ELSE [heap |-> [h EXCEPT ![Alloc(h)] =
                        Obj("ndarray", h[x].ndim, "float64",
                            CastAll(h[x].vals, "float64"), {})],
          ref |-> Alloc(h)]

\* ------------------------------------------------------------------------
\* SpectrumFrame (common/models.py)
\* ------------------------------------------------------------------------
\* np.isfinite(v) of a number
PyIsFinite(v) == IsFin(AsFloat(v))

LeZero_strict(v) == IF v.t = "float" THEN FLt(v.f, FZero) ELSE v.i < 0

\* v <= 0 and v < 1 of a number
LeZero(v) == IF v.t = "float" THEN FLe(v.f, FZero) ELSE v.i <= 0

LtOne(v) == IF v.t = "float" THEN FLt(v.f, Fin(1, 0)) ELSE v.i < 1

\* the fields of a frame; psd_dbm_per_hz, metadata and frequencies_hz are
\* references to an ndarray, a dict and an ndarray
Frame(psd, rbw, f_start, vbw, window, averages, noise, metadata, freqs) ==
    [psd_dbm_per_hz |-> psd, rbw_hz |-> rbw, f_start_hz |-> f_start,
     vbw_hz |-> vbw, window |-> window, averages |-> averages,
     noise_floor_dbm_per_hz |-> noise, metadata |-> metadata,
     frequencies_hz |-> freqs]

NoFrame == Frame(0, PyNone, PyNone, PyNone, PyNone, PyNone, PyNone, 0, 0)

Axis_from_one(f_start, df, M) ==
    [i \in 1..M |-> FAdd(AsFloat(f_start), FMul(AsFloat(df), FromInt(i)))]

\* f = f_start_hz + df * np.arange(M)
Axis(f_start, df, M) ==
    [i \in 1..M |-> FAdd(AsFloat(f_start), FMul(AsFloat(df), FromInt(i - 1)))]

AllFinite(vals) == \A i \in 1..Len(vals) : IsFin(vals[i])

\* np.all(np.diff(f) > 0)
StrictlyIncreasing(f) == \A i \in 1..(Len(f) - 1) : FLt(f[i], f[i + 1])

\* the exception __post_init__ raises for the array p, the scalar arguments
\* a and the axis f computed from them, "none" when it raises none
PostInitError(p, a, f) ==
    IF p.ndim # 1 THEN "ValueError"
    ELSE IF Len(p.vals) = 0 THEN "ValueError"
    ELSE IF ~AllFinite(p.vals) THEN "ValueError"
    ELSE IF ~IsNumber(a.rbw_hz) THEN "TypeError"
    ELSE IF ~PyIsFinite(a.rbw_hz) \/ LeZero(a.rbw_hz) THEN "ValueError"
    ELSE IF ~IsNumber(a.averages) THEN "TypeError"
    ELSE IF LtOne(a.averages) THEN "ValueError"
    ELSE IF a.vbw_hz.t # "none" /\ ~IsNumber(a.vbw_hz) THEN "TypeError"
    ELSE IF a.vbw_hz.t # "none" /\ (~PyIsFinite(a.vbw_hz) \/ LeZero(a.vbw_hz))
         THEN "ValueError"
    ELSE IF ~IsNumber(a.f_start_hz) THEN "TypeError"
    ELSE IF ~PyIsFinite(a.f_start_hz) THEN "ValueError"
    ELSE IF ~AllFinite(f) THEN "ValueError"
    ELSE IF ~StrictlyIncreasing(f) THEN "ValueError"
    ELSE "none"

\* __post_init__ once p = _ensure_np_array(...) is at reference ref of heap
\* h1 and the axis f is computed; h is the heap before the call
PostInit(h, h1, ref, a, f, err) ==
    IF err # "none" THEN [err |-> err, heap |-> h, frame |-> NoFrame]
    ELSE [err |-> "none",
          heap |-> [h1 EXCEPT ![Alloc(h1)] = NdArray("float64", f)],
          frame |-> Frame(ref, a.rbw_hz, a.f_start_hz, a.vbw_hz, a.window,
                          a.averages, a.noise_floor_dbm_per_hz, a.metadata,
                          Alloc(h1))]

Checked(h, h1, ref, a, f) ==
    PostInit(h, h1, ref, a, f, PostInitError(h1[ref], a, f))

Ensured(h, e, a) ==
    Checked(h, e.heap, e.ref, a,
            Axis(a.f_start_hz, a.rbw_hz, Len(e.heap[e.ref].vals)))

\* SpectrumFrame(...): a names the arguments, psd_dbm_per_hz and metadata by
\* reference.  Returns the exception ("none": constructed), the heap and the
\* frame; a failed construction leaves no object behind.
SpectrumFrame(h, a) == Ensured(h, ensure_np_array(h, a.psd_dbm_per_hz), a)

\* the properties of a frame sf on heap h
n_bins(h, sf) == Len(h[sf.frequencies_hz].vals)

bin_df_hz(sf) == AsFloat(sf.rbw_hz)

f_stop_hz(h, sf) == h[sf.frequencies_hz].vals[n_bins(h, sf)]

f_center_hz(h, sf) ==
    FMul(Lit(1, 2), FAdd(h[sf.frequencies_hz].vals[1], f_stop_hz(h, sf)))

BandIdx_all(f, low, high) == 1..Len(f)

\* the indices np.nonzero((f >= f_low_hz) & (f <= f_high_hz)) selects
BandIdx(f, low, high) ==
    {i \in 1..Len(f) : FLe(AsFloat(low), f[i]) /\ FLe(f[i], AsFloat(high))}

RECURSIVE Take(_, _, _)
\* vals[idx] for an ascending index set idx, from position i on
Take(vals, idx, i) ==
    IF i > Len(vals) THEN <<>>
    ELSE (IF i \in idx THEN <<vals[i]>> ELSE <<>>) \o Take(vals, idx, i + 1)

Min(S) == CHOOSE i \in S : \A j \in S : i <= j

\* the result of a constructor call made inside another function: a failure
\* passes on the exception and leaves the heap as it was before that function
OrUndo(r, h) == IF r.err = "none" THEN r ELSE [r EXCEPT !.heap = h]

\* the frame slice_band builds from the bins idx: the PSD copy at reference
\* p, the dict copy at reference m
Sliced(h, sf, idx, p, m) ==
    OrUndo(SpectrumFrame(
               [h EXCEPT ![p] = NdArray("float64",
                                         Take(h[sf.psd_dbm_per_hz].vals, idx, 1)),
                         ![m] = Dict(h[sf.metadata].items)],
               [psd_dbm_per_hz |-> p, rbw_hz |-> sf.rbw_hz,
                f_start_hz |-> PyFloat(h[sf.frequencies_hz].vals[Min(idx)]),
                vbw_hz |-> sf.vbw_hz, window |-> sf.window,
                averages |-> sf.averages,
                noise_floor_dbm_per_hz |-> sf.noise_floor_dbm_per_hz,
                metadata |-> m]),
           h)

\* the two references the next two new objects get
Alloc2(h) == Alloc([h EXCEPT ![Alloc(h)] = Dict({})])

Banded(h, sf, idx) ==
    IF idx = {} THEN [err |-> "ValueError", heap |-> h, frame |-> NoFrame]
    ELSE Sliced(h, sf, idx, Alloc(h), Alloc2(h))

\* sf.slice_band(f_low_hz, f_high_hz)
slice_band(h, sf, low, high) ==
    IF ~(IsNumber(low) /\ IsNumber(high)) THEN
        [err |-> "TypeError", heap |-> h, frame |-> NoFrame]
    ELSE IF ~(PyIsFinite(low) /\ PyIsFinite(high))
            \/ ~FLt(AsFloat(low), AsFloat(high)) THEN
        [err |-> "ValueError", heap |-> h, frame |-> NoFrame]
    ELSE Banded(h, sf, BandIdx(h[sf.frequencies_hz].vals, low, high))

\* ------------------------------------------------------------------------
\* The codec (dsp/spectrum_codec.py)
\* ------------------------------------------------------------------------
CODEC_NAME == "zlib+npy"

HEADER_VERSION == 1

\* an object json cannot serialise (a pathlib.Path, say) with its str()
PyPath(s) == [t |-> "path", i |-> 0, f |-> FZero, s |-> s]

\* a value that is a mutable object (a list, say), by its reference
PyRef(r) == [t |-> "ref", i |-> r, f |-> FZero, s |-> ""]

\* a key a JSON object does not have
Absent == [t |-> "absent", i |-> 0, f |-> FZero, s |-> ""]

\* a == b between Python values: numbers by value across int, bool and float,
\* nan equal to nothing, strings by content
PyEq(a, b) ==
    IF IsNumber(a) /\ IsNumber(b) THEN
        IF IsInt(a) /\ IsInt(b) THEN a.i = b.i
        ELSE ~IsNaN(AsFloat(a)) /\ AsFloat(a) = AsFloat(b)
    ELSE a.t = b.t /\ a.s = b.s

Digit(d) == CASE d = 0 -> "0" [] d = 1 -> "1" [] d = 2 -> "2" [] d = 3 -> "3"
              [] d = 4 -> "4" [] d = 5 -> "5" [] d = 6 -> "6" [] d = 7 -> "7"
              [] d = 8 -> "8" [] d = 9 -> "9"

RECURSIVE IntStr(_)
\* str(n) of an int
IntStr(n) ==
    IF n < 0 THEN "-" \o IntStr(-n)
    ELSE IF n < 10 THEN Digit(n)
    ELSE IntStr(n \div 10) \o Digit(n % 10)

\* str(v) of a str, int, bool, None or path
StrOf(v) ==
    CASE v.t = "str" -> v.s
      [] v.t = "path" -> v.s
      [] v.t = "int" -> IntStr(v.i)
      [] v.t = "bool" -> (IF v.i = 1 THEN "True" ELSE "False")
      [] v.t = "none" -> "None"

\* the key json.dumps writes for a dict key, read back by json.loads
JsonKey(k) ==
    CASE k.t = "str" -> k.s
      [] k.t = "int" -> IntStr(k.i)
      [] k.t = "bool" -> (IF k.i = 1 THEN "true" ELSE "false")
      [] k.t = "none" -> "null"

\* json.dumps accepts the value / the key
JsonAble(v) == v.t \in {"int", "bool", "float", "str", "none"}

to_json_safe(v) == IF JsonAble(v) THEN v ELSE PyStr(StrOf(v))

\* _metadata_json_safe followed by json.dumps and json.loads of the header:
\* the items of the dict the decoder reads
metadata_json_safe(items) ==
    IF \A kv \in items : JsonAble(kv[1]) /\ JsonAble(kv[2])
    THEN {<<PyStr(JsonKey(kv[1])), kv[2]>> : kv \in items}
    ELSE {<<PyStr(StrOf(kv[1])), to_json_safe(kv[2])>> : kv \in items}

\* _validate_zlib_level
LevelError(level) ==
    IF ~IsInt(level) THEN "TypeError"
    ELSE IF ~(0 <= level.i /\ level.i <= 9) THEN "ValueError"
    ELSE "none"

\* np.dtype(dtype) of a name, then _validate_float_dtype
DTypeError(dtype) == IF dtype \in FloatDTypes THEN "none" ELSE "TypeError"

\* the header object of an envelope: JSON values by key, Absent for a key the
\* object lacks; metadata by its items
Header(rbw, f_start, vbw, window, averages, noise, metadata, psd_dtype, codec, version) ==
    [rbw_hz |-> rbw, f_start_hz |-> f_start, vbw_hz |-> vbw, window |-> window,
     averages |-> averages, noise_floor_dbm_per_hz |-> noise,
     metadata |-> metadata, psd_dtype |-> psd_dtype, codec |-> codec,
     version |-> version]

NoHeader ==
    Header(Absent, Absent, Absent, Absent, Absent, Absent, {}, Absent, Absent, Absent)

\* the data field of an envelope, layer by layer: the JSON type of the value;
\* the base64 text (characters outside the alphabet present, length a valid
\* padded one); the DEFLATE stream; the .npy container and the array in it
Data(t, junk, padded, comp, level, npy, arr) ==
    [t |-> t, junk |-> junk, padded |-> padded, comp |-> comp, level |-> level,
     npy |-> npy, arr |-> arr]

NoData == Data("absent", FALSE, TRUE, "ok", 0, "ok", Free)

\* the text handed to the decoder: form is "none" (no text), "bytes" (not a
\* str), "garbage" (not JSON), "array" (JSON, not an object) or "object"
Wire(form, has_header, header_is_obj, header, has_data, data) ==
    [form |-> form, has_header |-> has_header, header_is_obj |-> header_is_obj,
     header |-> header, has_data |-> has_data, data |-> data]

NoWire == Wire("none", FALSE, FALSE, NoHeader, FALSE, NoData)

\* float(v), int(v), str(v) of an optional scalar field
FloatOf(v) == IF v.t = "none" THEN PyNone ELSE PyFloat(AsFloat(v))

IntOf(v) == IF v.t = "float" THEN PyInt(Trunc(v.f)) ELSE PyInt(v.i)

StrOrNone(v) == IF v.t = "none" THEN PyNone ELSE PyStr(StrOf(v))

\* spectrumframe_to_b64(sf, level=level, dtype=dtype): the exception and the
\* envelope text
spectrumframe_to_b64(h, sf, level, dtype) ==
    IF LevelError(level) # "none" THEN [err |-> LevelError(level), wire |-> NoWire]
    ELSE IF DTypeError(dtype) # "none" THEN [err |-> DTypeError(dtype), wire |-> NoWire]
    ELSE LET psd_to_store == CastAll(h[sf.psd_dbm_per_hz].vals, dtype)
             header == Header(PyFloat(AsFloat(sf.rbw_hz)),
                              PyFloat(AsFloat(sf.f_start_hz)),
                              FloatOf(sf.vbw_hz), StrOrNone(sf.window),
                              IntOf(sf.averages),
                              FloatOf(sf.noise_floor_dbm_per_hz),
                              metadata_json_safe(h[sf.metadata].items),
                              PyStr(dtype), PyStr(CODEC_NAME), PyInt(HEADER_VERSION))
         IN  [err |-> "none",
              wire |-> Wire("object", TRUE, TRUE, header, TRUE,
                            Data("str", FALSE, TRUE, "ok", level.i, "ok",
                                 NdArray(dtype, psd_to_store)))]

\* header.get(key): None for a key the object lacks
Get(v) == IF v = Absent THEN PyNone ELSE v

\* _validate_header: the exception it raises, "none" when it raises none
HeaderError(hd) ==
    IF hd.rbw_hz = Absent \/ hd.f_start_hz = Absent \/ hd.averages = Absent
        THEN "ValueError"
    ELSE IF ~PyEq(Get(hd.codec), PyStr(CODEC_NAME)) THEN "ValueError"
    ELSE IF ~PyEq(Get(hd.version), PyInt(HEADER_VERSION)) THEN "ValueError"
    ELSE IF ~IsNumber(hd.rbw_hz) THEN "ValueError"
    ELSE IF ~IsNumber(hd.f_start_hz) THEN "ValueError"
    ELSE IF ~IsInt(hd.averages) THEN "ValueError"
    ELSE IF Get(hd.vbw_hz) # PyNone /\ ~IsNumber(hd.vbw_hz) THEN "ValueError"
    ELSE IF Get(hd.noise_floor_dbm_per_hz) # PyNone
            /\ ~IsNumber(hd.noise_floor_dbm_per_hz) THEN "ValueError"
    ELSE "none"

\* base64.b64decode, zlib.decompress and np.load of the data field, each
\* failure re-raised as ValueError.  b64decode discards characters outside
\* the alphabet and decompress ignores bytes after the end of the stream.
DataError(d) ==
    IF d.t # "str" THEN "ValueError"
    ELSE IF ~d.padded THEN "ValueError"
    ELSE IF d.comp \in {"truncated", "corrupt"} THEN "ValueError"
    ELSE IF d.npy # "ok" THEN "ValueError"
    ELSE "none"

DecodeRaise(exc, h) == [err |-> exc, heap |-> h, frame |-> NoFrame]

\* r with the array at reference psd dropped unless r's frame holds it
Unloaded(r, psd) ==
    IF r.err # "none" \/ r.frame.psd_dbm_per_hz = psd THEN r
    ELSE [r EXCEPT !.heap[psd] = Free]

\* the frame the decoder constructs from the loaded array, placed at
\* reference psd, and the header; the loaded array goes when the frame took
\* a converted copy
Loaded(h, w, psd, md) ==
    Unloaded(
        OrUndo(SpectrumFrame(
                   [h EXCEPT ![psd] = w.data.arr,
                             ![md] = Dict(w.header.metadata)],
                   [psd_dbm_per_hz |-> psd, rbw_hz |-> w.header.rbw_hz,
                    f_start_hz |-> w.header.f_start_hz,
                    vbw_hz |-> Get(w.header.vbw_hz),
                    window |-> Get(w.header.window),
                    averages |-> w.header.averages,
                    noise_floor_dbm_per_hz |->
                        Get(w.header.noise_floor_dbm_per_hz),
                    metadata |-> md]),
               h),
        psd)

\* b64_to_spectrumframe(s): the exception, the heap and the frame
b64_to_spectrumframe(h, w) ==
    IF w.form = "bytes" THEN DecodeRaise("TypeError", h)
    ELSE IF w.form = "garbage" THEN DecodeRaise("ValueError", h)
    ELSE IF w.form # "object" THEN DecodeRaise("ValueError", h)
    ELSE IF ~(w.has_header /\ w.has_data) THEN DecodeRaise("ValueError", h)
    ELSE IF ~w.header_is_obj THEN DecodeRaise("ValueError", h)
    ELSE IF HeaderError(w.header) # "none" THEN DecodeRaise("ValueError", h)
    ELSE IF DataError(w.data) # "none" THEN DecodeRaise("ValueError", h)
    ELSE Loaded(h, w, Alloc(h), Alloc2(h))

\* ------------------------------------------------------------------------
\* IQFrame (common/models.py)
\* ------------------------------------------------------------------------
\* the arguments of IQFrame(...): samples by the shape of the array
IQArgs(shape, fs_hz, center_freq_hz, impedance_ohm) ==
    [shape |-> shape, fs_hz |-> fs_hz, center_freq_hz |-> center_freq_hz,
     impedance_ohm |-> impedance_ohm]

NoIQFrame == IQArgs(<<>>, PyNone, PyNone, PyNone)

\* IQFrame.__post_init__: the exception it raises, "none" when it raises
\* none; np.isfinite of a value that is no number raises TypeError
IQPostInitError(a) ==
    IF Len(a.shape) \notin {1, 2} THEN "ValueError"
    ELSE IF ~IsNumber(a.fs_hz) THEN "TypeError"
    ELSE IF ~PyIsFinite(a.fs_hz) \/ LeZero(a.fs_hz) THEN "ValueError"
    ELSE IF ~IsNumber(a.center_freq_hz) THEN "TypeError"
    ELSE IF ~PyIsFinite(a.center_freq_hz) \/ LeZero(a.center_freq_hz)
         THEN "ValueError"
    ELSE IF ~IsNumber(a.impedance_ohm) THEN "TypeError"
    ELSE IF ~PyIsFinite(a.impedance_ohm) \/ LeZero(a.impedance_ohm)
         THEN "ValueError"
    ELSE "none"

\* IQFrame(...): the exception and the frame
IQFrame(a) ==
    [err |-> IQPostInitError(a),
     frame |-> IF IQPostInitError(a) = "none" THEN a ELSE NoIQFrame]

n_samples_first(fr) == fr.shape[1]

\* IQFrame.n_channels
n_channels(fr) == IF Len(fr.shape) = 1 THEN 1 ELSE fr.shape[1]

\* IQFrame.n_samples
n_samples(fr) == fr.shape[Len(fr.shape)]

\* ------------------------------------------------------------------------
\* SpectrumFrame.__eq__ (common/models.py)
\* ------------------------------------------------------------------------
\* np.allclose defaults: rtol = 1e-05, atol = 1e-08
RTol == Lit(1, 100000)

ATol == Lit(1, 100000000)

FAbs(x) == IF x = NInf THEN PInf ELSE IF IsFin(x) /\ x.m < 0 THEN FNeg(x) ELSE x

\* np.isclose(x, y) of two elements: |x - y| <= atol + rtol * |y| for finite
\* ones, x == y otherwise
IsClose(x, y) ==
    IF IsFin(x) /\ IsFin(y) THEN
        FLe(FAbs(FAdd(x, FNeg(y))), FAdd(ATol, FMul(RTol, FAbs(y))))
    ELSE ~IsNaN(x) /\ x = y

\* 1-D shapes that broadcast together: equal lengths, or one of length 1
Broadcastable(a, b) == Len(a) = Len(b) \/ Len(a) = 1 \/ Len(b) = 1

\* element i of a after broadcasting to length n
Stretch(a, i) == IF Len(a) = 1 THEN a[1] ELSE a[i]

\* np.allclose(a, b) of two 1-D arrays that broadcast together
allclose(a, b) ==
    \A i \in 1..(IF Len(a) > Len(b) THEN Len(a) ELSE Len(b)) :
        IsClose(Stretch(a, i), Stretch(b, i))

\* x == y of two frames on heap h: the exception raised ("none": a value was
\* returned) and the value
__eq__(h, x, y) ==
    IF ~Broadcastable(h[x.psd_dbm_per_hz].vals, h[y.psd_dbm_per_hz].vals)
    THEN [err |-> "ValueError", ret |-> FALSE]
    ELSE [err |-> "none",
          ret |-> /\ allclose(h[x.psd_dbm_per_hz].vals, h[y.psd_dbm_per_hz].vals)
                  /\ PyEq(x.rbw_hz, y.rbw_hz)
                  /\ PyEq(x.f_start_hz, y.f_start_hz)
                  /\ PyEq(x.vbw_hz, y.vbw_hz)
                  /\ PyEq(x.window, y.window)
                  /\ PyEq(x.averages, y.averages)
                  /\ PyEq(x.noise_floor_dbm_per_hz, y.noise_floor_dbm_per_hz)]

\* ------------------------------------------------------------------------
\* The inputs the calls are made with
\* ------------------------------------------------------------------------
\* the float one spacing above 2^k
UlpAbove(k) == Fin(Pow(2, Prec - 1) + 1, k - (Prec - 1))

\* n_min values: ints, bools, floats (whole, fractional, next to a power of
\* two, zero, negative, nan, inf), and non-numbers
SizeInputs ==
    {PyInt(n) : n \in -1..MaxN}
    \cup {PyInt(1000), PyInt(4097)}
    \cup {PyBool(TRUE), PyBool(FALSE), PyStr("16"), PyNone}
    \cup {PyFloat(Lit(n, 4)) : n \in -2..MaxN}
    \cup {PyFloat(UlpAbove(k)) : k \in 1..6}
    \cup {PyFloat(NaN), PyFloat(PInf), PyFloat(NInf)}

Args(rbw, fs, bw, w, ov, K, sp) ==
    [rbw_hz |-> rbw, fs_hz |-> fs, bw_hz |-> bw, window |-> w, overlap |-> ov,
     K |-> K, size_planner |-> sp]

\* overlap (in quarters), K and bandwidth factor (in halves of fs_hz)
Shapes == {<<0, 1, 2>>, <<2, 8, 20>>, <<3, 8, 1>>}

\* well-formed requests over a grid of rates and resolutions
GridArgs ==
    {Args(Lit(r, 10), Lit(f, 1), Lit(f * s[3], 2), w, Lit(s[1], 4), PyInt(s[2]), sp) :
        r \in {10, 25, 34, 173, 4250}, f \in {48, 160, 1000, 1024, 5000},
        s \in Shapes, w \in Windows, sp \in {"next_pow2", "next_5smooth"}}

\* requests with one or several arguments out of range or of the wrong kind
EdgeArgs ==
    {Args(r, f, b, w, o, K, sp) :
        r \in {Lit(10, 1), FZero, Lit(-1, 1), NaN},
        f \in {Lit(1000, 1), Lit(-1, 1), NaN},
        b \in {Lit(1000, 1), Lit(-5, 1)},
        w \in {"hann", "kaiser"},
        o \in {Lit(1, 2), Lit(1, 1), Lit(-1, 4), NaN},
        K \in {PyInt(4), PyInt(0), PyFloat(Fin(2, 0)), PyBool(TRUE)},
        sp \in {"next_pow2", "next_5smooth", "next_7smooth"}}

\* the request of the docstring example
DocExample ==
    Args(Lit(1000, 1), Lit(2000000, 1), Lit(20000000, 1), "hann", Lit(1, 2),
         PyInt(8), "next_5smooth")

\* well-formed requests that name a strategy the planners do not offer
NameArgs ==
    {Args(Lit(10, 1), Lit(1000, 1), Lit(3000, 1), w, Lit(1, 2), PyInt(4), sp) :
        w \in {"hann", "rect"},
        sp \in {"next_7smooth", "", "__doc__", "__module__", "__sizeof__",
                "__init__"}}

\* requests at the ends of the ranges: an infinite or nan bandwidth, an
\* infinite resolution, the largest overlap below 1, the smallest sizes
EndArgs ==
    {Args(r, Lit(1000, 1), b, w, o, PyInt(4), sp) :
        r \in {Lit(10, 1), Lit(1000, 1), PInf},
        b \in {Lit(3000, 1), PInf, NaN},
        w \in {"hann", "rect"},
        o \in {Lit(1, 2), Lit(65535, 65536)},
        sp \in {"next_pow2", "next_5smooth"}}

PlanInputs == GridArgs \cup EdgeArgs \cup NameArgs \cup EndArgs \cup {DocExample}

\* PSD arguments that satisfy the constructor: a list, float64 arrays (among
\* their values some that float16 cannot hold exactly or at all), a float32
\* array
PsdRamp == Obj("list", 1, "", <<Lit(0, 1), Lit(-10, 1), Lit(-20, 1)>>, {})

PsdWide ==
    NdArray("float64", <<Lit(-1741, 10), Lit(13, 4), Lit(2049, 1), Lit(-7, 1),
                         Lit(1, 10), Lit(0, 1), Lit(-65504, 1), Lit(5, 1)>>)

PsdLarge == NdArray("float64", <<Lit(70000, 1), Lit(-3, 1)>>)

PsdSingle == NdArray("float32", <<Lit(1, 1), Lit(3, 2)>>)

PsdFlat == NdArray("float64", <<Lit(-90, 1), Lit(-90, 1)>>)

GoodPsds == {PsdRamp, PsdWide, PsdLarge, PsdSingle, PsdFlat}

\* PSD arguments the constructor refuses: empty, 2-D, 0-D, with nan, with inf
BadPsds ==
    {Obj("list", 1, "", <<>>, {}),
     Obj("list", 2, "", <<Lit(1, 1), Lit(2, 1), Lit(3, 1), Lit(4, 1)>>, {}),
     Obj("ndarray", 0, "float64", <<Lit(1, 1)>>, {}),
     NdArray("float64", <<Lit(1, 1), NaN>>),
     NdArray("float32", <<NInf, Lit(1, 1)>>)}

\* <<rbw_hz, f_start_hz>>
AxisUnit == <<PyFloat(Lit(1, 1)), PyFloat(Lit(100, 1))>>

AxisInts == <<PyInt(1), PyInt(100)>>

AxisTenths == <<PyFloat(Lit(1, 10)), PyFloat(Lit(1, 10))>>

AxisThirds == <<PyFloat(Lit(1000, 3)), PyFloat(Lit(-1000, 1))>>

GoodAxes == {AxisUnit, AxisInts, AxisTenths, AxisThirds}

\* rbw_hz not positive or not finite, f_start_hz not finite, and a spacing
\* too fine to separate the bins at the start frequency
BadAxes ==
    {<<PyFloat(r), PyFloat(Lit(100, 1))>> : r \in {FZero, Lit(-1, 1), NaN, PInf}}
    \cup {<<PyInt(0), PyInt(100)>>}
    \cup {<<PyFloat(Lit(1, 1)), PyFloat(f)>> : f \in {NaN, NInf}}
    \cup {<<PyFloat(Lit(1, 4)), PyFloat(Fin(1, Prec + 2))>>}

\* <<vbw_hz, window, averages, noise_floor_dbm_per_hz, metadata items>>
ExtraNone == <<PyNone, PyNone, PyInt(1), PyNone, {}>>

ExtraFloats ==
    <<PyFloat(Lit(3, 1)), PyStr("hann"), PyInt(8), PyFloat(Lit(-301, 2)),
      {<<PyStr("site"), PyStr("lab")>>, <<PyInt(7), PyPath("/tmp/a")>>}>>

ExtraInts ==
    <<PyInt(3), PyStr("blackman"), PyBool(TRUE), PyInt(-150),
      {<<PyStr("gain"), PyFloat(Lit(5, 2))>>}>>

GoodExtras == {ExtraNone, ExtraFloats, ExtraInts}

\* readings the caller holds as a list, passed as the PSD and also kept in
\* the metadata under "raw"
PsdList == Obj("list", 1, "", <<Lit(-90, 1), Lit(-80, 1), Lit(-70, 1)>>, {})

ExtraRaw == <<PyNone, PyNone, PyInt(1), PyNone, {<<PyStr("raw"), PyRef(1)>>}>>

\* the axes and the other fields the valid frames are built with
GoodSettings ==
    {<<AxisUnit, ExtraNone>>, <<AxisUnit, ExtraFloats>>, <<AxisInts, ExtraInts>>,
     <<AxisTenths, ExtraFloats>>, <<AxisThirds, ExtraNone>>}

BadExtras ==
    {<<v, PyNone, PyInt(1), PyNone, {}>> :
        v \in {PyFloat(FZero), PyFloat(NaN), PyInt(-2), PyFloat(PInf)}}
    \cup {<<PyNone, PyStr("hann"), PyInt(n), PyNone, {}>> : n \in {0, -3}}

\* the arguments of one constructor call: the array-like and the dict the
\* caller holds, and the scalars
FrameArgs(psd, axis, extra) ==
    [psd |-> psd, items |-> extra[5],
     rbw_hz |-> axis[1], f_start_hz |-> axis[2], vbw_hz |-> extra[1],
     window |-> extra[2], averages |-> extra[3],
     noise_floor_dbm_per_hz |-> extra[4]]

FrameInputs ==
    {FrameArgs(p, s[1], s[2]) : p \in GoodPsds, s \in GoodSettings}
    \cup {FrameArgs(PsdList, AxisUnit, ExtraRaw)}
    \cup {FrameArgs(p, x, e) : p \in BadPsds, x \in {<<PyInt(1), PyInt(100)>>},
                               e \in GoodExtras}
    \cup {FrameArgs(p, x, e) : p \in {PsdRamp, PsdSingle}, x \in BadAxes,
                               e \in GoodExtras}
    \cup {FrameArgs(p, x, e) : p \in {PsdRamp, PsdWide}, x \in GoodAxes,
                               e \in BadExtras}
    \cup {FrameArgs(p, x, e) : p \in BadPsds, x \in BadAxes, e \in BadExtras}

\* <<f_low_hz, f_high_hz>>
Bands ==
    {<<PyFloat(Lit(a, 10)), PyFloat(Lit(b, 10))>> :
        a \in {1, 2, 3, 7, 1000}, b \in {5, 6, 7, 8, 1015}}
    \cup {<<PyInt(100), PyInt(101)>>, <<PyInt(101), PyInt(101)>>,
          <<PyInt(102), PyInt(100)>>, <<PyInt(-2000), PyInt(2000)>>,
          <<PyInt(5000), PyInt(6000)>>, <<PyInt(100), PyFloat(Lit(201, 2))>>,
          <<PyFloat(NaN), PyInt(1)>>, <<PyFloat(NInf), PyFloat(PInf)>>,
          <<PyFloat(Lit(-700, 1)), PyFloat(Lit(1, 3))>>}

Levels == {PyInt(0), PyInt(6), PyInt(9), PyInt(10), PyInt(-1), PyStr("6")}

DTypes == FloatDTypes \cup {"int32"}

\* JSON values an altered header field is given
JsonVals ==
    {Absent, PyNone, PyInt(1), PyInt(2), PyBool(TRUE), PyFloat(Lit(1, 1)),
     PyFloat(Lit(3, 2)), PyStr(CODEC_NAME), PyStr("zlib"), PyStr("1")}

\* arrays an altered container holds
OtherArrays ==
    {NdArray("int32", <<Lit(4, 1), Lit(5, 1)>>),
     Obj("ndarray", 2, "float32", <<Lit(1, 1), Lit(2, 1)>>, {}),
     NdArray("float64", <<NaN>>)}

\* the texts a party other than the encoder can make of the envelope w: not
\* a str, not JSON, not an object, a field dropped, the header not an
\* object, a header field replaced or removed, a layer of the data damaged
Alterations(w) ==
    {[w EXCEPT !.form = f] : f \in {"bytes", "garbage", "array"}}
    \cup {[w EXCEPT !.has_header = FALSE], [w EXCEPT !.has_data = FALSE],
          [w EXCEPT !.header_is_obj = FALSE]}
    \cup {[w EXCEPT !.header.codec = v] : v \in JsonVals}
    \cup {[w EXCEPT !.header.version = v] : v \in JsonVals}
    \cup {[w EXCEPT !.header.rbw_hz = v] : v \in JsonVals}
    \cup {[w EXCEPT !.header.averages = v] : v \in JsonVals}
    \cup {[w EXCEPT !.header.f_start_hz = v] : v \in {Absent, PyNone, PyStr("1")}}
    \cup {[w EXCEPT !.header.vbw_hz = v] : v \in {Absent, PyStr("1"), PyInt(2)}}
    \cup {[w EXCEPT !.header.noise_floor_dbm_per_hz = v] :
              v \in {Absent, PyStr("1"), PyBool(TRUE)}}
    \cup {[w EXCEPT !.header.window = v] : v \in {Absent, PyInt(2)}}
    \cup {[w EXCEPT !.data.t = t] : t \in {"number", "null"}}
    \cup {[w EXCEPT !.data.junk = TRUE], [w EXCEPT !.data.padded = FALSE]}
    \cup {[w EXCEPT !.data.comp = c] : c \in {"truncated", "corrupt", "trailing"}}
    \cup {[w EXCEPT !.data.npy = n] : n \in {"truncated", "badmagic"}}
    \cup {[w EXCEPT !.data.arr = a] : a \in OtherArrays}
    \cup {[w EXCEPT !.header.version = v, !.data.comp = c] :
              v \in {Absent, PyInt(2)}, c \in {"corrupt", "trailing"}}
    \cup {[w EXCEPT !.header.codec = v, !.header.rbw_hz = Absent] :
              v \in {Absent, PyStr("zlib")}}

\* ------------------------------------------------------------------------
\* State: the call in progress or just completed, the objects on the heap,
\* the frame constructed, the frame derived from it and the envelope text
\* ------------------------------------------------------------------------
VARIABLES size_call, plan_call, heap, sf, derived, wire, frame_call, eq_call,
          threads, locals, iq_call

vars ==
    <<size_call, plan_call, heap, sf, derived, wire, frame_call, eq_call,
      threads, locals, iq_call>>

thread_vars == <<threads, locals>>

plan_vars == <<size_call, plan_call, thread_vars>>

frame_vars == <<heap, sf, derived, wire, frame_call, eq_call>>

SizeIdle == [fn |-> "idle", n_min |-> PyNone, ret |-> Raise("none")]

PlanIdle ==
    [fn |-> "idle", args |-> Args(FZero, FZero, FZero, "", FZero, PyNone, ""),
     capture |-> PlanRaise("none", 0), welch |-> WelchRaise("none", 0)]

\* the call on frames: its name, the exception it raised, its arguments
FrameCall(fn, err, args, low, high, level, dtype) ==
    [fn |-> fn, err |-> err, args |-> args, f_low_hz |-> low, f_high_hz |-> high,
     level |-> level, dtype |-> dtype]

FrameIdle == FrameCall("idle", "none", NoFrame, PyNone, PyNone, PyNone, "")

\* the comparison of two frames: which ones, the exception raised, the value
EqCall(fn, left, right, r) ==
    [fn |-> fn, left |-> left, right |-> right, err |-> r.err, ret |-> r.ret]

EqIdle == EqCall("idle", "", "", [err |-> "none", ret |-> FALSE])

ThreadIdle ==
    Thread("idle", PyNone, PlanIdle.args, "idle", Raise("none"),
           PlanRaise("none", 0), WelchRaise("none", 0))

\* no call of the sequential caller in progress
\* the construction of an IQFrame: the exception, the arguments, the frame
\* and, of a frame, its n_channels and n_samples
IqIdle ==
    [fn |-> "idle", err |-> "none", args |-> NoIQFrame, frame |-> NoIQFrame,
     n_channels |-> 0, n_samples |-> 0]

Quiet ==
    /\ iq_call = IqIdle
    /\ eq_call = EqIdle
    /\ size_call = SizeIdle
    /\ plan_call = PlanIdle
    /\ frame_call = FrameIdle
    /\ heap = EmptyHeap
    /\ sf = NoFrame
    /\ derived = NoFrame
    /\ wire = NoWire

Idle ==
    /\ Quiet
    /\ threads = [t \in Tids |-> ThreadIdle]
    /\ locals = [t \in Tids |-> NoLocals]

Init == Idle

CallNextPow2 ==
    /\ Idle
    /\ \E v \in SizeInputs :
         size_call' = [fn |-> "next_pow2", n_min |-> v, ret |-> next_pow2(v)]
    /\ UNCHANGED <<plan_call, thread_vars, frame_vars, iq_call>>

CallNext5Smooth ==
    /\ Idle
    /\ \E v \in SizeInputs :
         size_call' = [fn |-> "next_5smooth", n_min |-> v, ret |-> next_5smooth(v)]
    /\ UNCHANGED <<plan_call, thread_vars, frame_vars, iq_call>>

CallPlanCapture ==
    /\ Idle
    /\ \E a \in PlanInputs :
         plan_call' = [PlanIdle EXCEPT !.fn = "plan_capture_parameters",
                                       !.args = a,
                                       !.capture = plan_capture_parameters(a)]
    /\ UNCHANGED <<size_call, thread_vars, frame_vars, iq_call>>

\* plan_welch_parameters is called, either on its own or with the arguments
\* plan_capture_parameters was just called with
CallPlanWelch ==
    /\ IF plan_call.fn = "plan_capture_parameters" THEN TRUE ELSE Idle
    /\ \E a \in IF Idle THEN PlanInputs ELSE {plan_call.args} :
         plan_call' =
             [plan_call EXCEPT
                 !.fn = IF Idle THEN "plan_welch_parameters"
                        ELSE "plan_capture_parameters, plan_welch_parameters",
                 !.args = a,
                 !.welch = plan_welch_parameters(a)]
    /\ UNCHANGED <<size_call, thread_vars, frame_vars, iq_call>>

\* the shapes of the samples argument: 0-D, 1-D (empty too), 2-D, 3-D
IQShapes == {<<>>, <<4>>, <<0>>, <<2, 4>>, <<3, 1>>, <<2, 3, 4>>}

IQInputs ==
    {IQArgs(sh, fs, cf, z) :
        sh \in IQShapes,
        fs \in {PyFloat(Lit(48, 1)), PyInt(0), PyFloat(NaN), PyFloat(PInf),
                PyInt(-1), PyBool(TRUE), PyNone},
        cf \in {PyFloat(Lit(100, 1)), PyFloat(FZero), PyFloat(NInf)},
        z \in {PyFloat(Lit(50, 1)), PyInt(75), PyFloat(Lit(-50, 1)), PyFloat(NaN)}}

\* IQFrame(samples, fs_hz, center_freq_hz, impedance_ohm) and, of the frame
\* made, the properties n_channels and n_samples
NewIQFrame ==
    /\ Idle
    /\ \E a \in IQInputs :
         \E r \in {IQFrame(a)} :
             iq_call' = [fn |-> "IQFrame", err |-> r.err, args |-> a,
                         frame |-> r.frame,
                         n_channels |-> IF r.err = "none" THEN n_channels(r.frame)
                                        ELSE 0,
                         n_samples |-> IF r.err = "none" THEN n_samples(r.frame)
                                       ELSE 0]
    /\ UNCHANGED <<plan_vars, frame_vars>>

\* the caller's array-like and dict, and the constructor arguments that
\* refer to them
CallerHeap(a) == [EmptyHeap EXCEPT ![1] = a.psd, ![2] = Dict(a.items)]

CallerArgs(a) ==
    Frame(1, a.rbw_hz, a.f_start_hz, a.vbw_hz, a.window, a.averages,
          a.noise_floor_dbm_per_hz, 2, 0)

\* the caller builds its array-like and its dict and constructs a frame
NewFrame ==
    /\ Idle
    /\ \E a \in FrameInputs :
         \E r \in {SpectrumFrame(CallerHeap(a), CallerArgs(a))} :
             /\ heap' = r.heap
             /\ sf' = r.frame
             /\ frame_call' = [FrameIdle EXCEPT !.fn = "SpectrumFrame",
                                                !.err = r.err,
                                                !.args = CallerArgs(a)]
    /\ UNCHANGED <<plan_vars, iq_call, eq_call, derived, wire>>

SliceBand ==
    /\ frame_call.fn = "SpectrumFrame"
    /\ sf # NoFrame
    /\ \E b \in Bands :
         \E r \in {slice_band(heap, sf, b[1], b[2])} :
             /\ heap' = r.heap
             /\ derived' = r.frame
             /\ frame_call' = [frame_call EXCEPT !.fn = "slice_band",
                                                 !.err = r.err,
                                                 !.f_low_hz = b[1],
                                                 !.f_high_hz = b[2]]
    /\ UNCHANGED <<plan_vars, iq_call, eq_call, sf, wire>>

\* the codec is modelled for metadata whose values are scalars
Encode ==
    /\ frame_call.fn = "SpectrumFrame"
    /\ sf # NoFrame
    /\ \A it \in heap[sf.metadata].items : it[2].t # "ref"
    /\ \E level \in Levels, dtype \in DTypes :
         \E r \in {spectrumframe_to_b64(heap, sf, level, dtype)} :
             /\ wire' = r.wire
             /\ frame_call' = [frame_call EXCEPT !.fn = "spectrumframe_to_b64",
                                                 !.err = r.err,
                                                 !.level = level,
                                                 !.dtype = dtype]
    /\ UNCHANGED <<plan_vars, iq_call, eq_call, heap, sf, derived>>

\* the text is the encoder's own output
Pristine ==
    /\ frame_call.fn = "spectrumframe_to_b64"
    /\ frame_call.err = "none"
    /\ wire = spectrumframe_to_b64(heap, sf, frame_call.level, frame_call.dtype).wire

\* the envelope, one written at the default level, is altered on its way to
\* the decoder
AlterEnvelope ==
    /\ Pristine
    /\ frame_call.level = PyInt(6)
    /\ \E w \in Alterations(wire) : wire' = w
    /\ UNCHANGED <<plan_vars, iq_call, eq_call, heap, sf, derived, frame_call>>

Decode ==
    /\ frame_call.fn = "spectrumframe_to_b64"
    /\ frame_call.err = "none"
    /\ \E r \in {b64_to_spectrumframe(heap, wire)} :
           /\ heap' = r.heap
           /\ derived' = r.frame
           /\ frame_call' = [frame_call EXCEPT !.fn = "b64_to_spectrumframe",
                                               !.err = r.err]
    /\ UNCHANGED <<plan_vars, iq_call, eq_call, sf, wire>>

\* the frames at hand, by the name the caller has for them
FrameNamed(name) == IF name = "sf" THEN sf ELSE derived

\* the decoder was given the encoder's own output
RoundTrip ==
    /\ frame_call.fn = "b64_to_spectrumframe"
    /\ wire = spectrumframe_to_b64(heap, sf, frame_call.level, frame_call.dtype).wire

\* the caller compares a frame with itself, with its slice or with its round
\* trip through the codec, using ==
Compare ==
    /\ eq_call = EqIdle
    /\ sf # NoFrame
    /\ derived # NoFrame
    /\ frame_call.fn = "slice_band" \/ RoundTrip
    /\ \E p \in {<<"sf", "derived">>, <<"derived", "sf">>, <<"sf", "sf">>} :
         eq_call' = EqCall("__eq__", p[1], p[2],
                           __eq__(heap, FrameNamed(p[1]), FrameNamed(p[2])))
    /\ UNCHANGED <<plan_vars, iq_call, heap, sf, derived, wire, frame_call>>

\* arr[i] = v on the array or list at reference ref, the value stored in the
\* array's dtype
SetItem(h, ref, i, v) == [h EXCEPT ![ref].vals[i] = CastTo(v, h[ref].dtype)]

\* d[k] = v on the dict at reference ref
SetKey(h, ref, k, v) ==
    [h EXCEPT ![ref].items = {it \in @ : it[1] # k} \cup {<<k, v>>}]

\* the values written into an array after the frame is constructed
WrittenValues == {NaN, Lit(5, 1)}

\* the code that supplied the constructor arguments writes to the array-like
\* or to the dict it supplied, through its own references
CallerWrites ==
    /\ frame_call.fn = "SpectrumFrame"
    /\ sf # NoFrame
    /\ \/ \E v \in WrittenValues : heap' = SetItem(heap, 1, 1, v)
       \/ heap' = SetKey(heap, 2, PyStr("site"), PyStr("roof"))
    /\ frame_call' = [frame_call EXCEPT !.fn = "caller_writes"]
    /\ UNCHANGED <<plan_vars, iq_call, eq_call, sf, derived, wire>>

\* a holder of the frame writes to sf.psd_dbm_per_hz[0] or to sf.metadata
HolderWrites ==
    /\ frame_call.fn = "SpectrumFrame"
    /\ sf # NoFrame
    /\ \/ \E v \in WrittenValues :
              heap' = SetItem(heap, sf.psd_dbm_per_hz, 1, v)
       \/ heap' = SetKey(heap, sf.metadata, PyStr("site"), PyStr("roof"))
    /\ frame_call' = [frame_call EXCEPT !.fn = "holder_writes"]
    /\ UNCHANGED <<plan_vars, iq_call, eq_call, sf, derived, wire>>

\* a holder of the frame assigns to one of its attributes: the dataclass is
\* frozen, the assignment raises and the frame keeps the field
\* after a slice, a holder of the source or of the new frame writes through
\* it: an item of its PSD, a key of its metadata, or an item of a list its
\* metadata holds
WriteThrough ==
    /\ frame_call.fn = "slice_band"
    /\ frame_call.err = "none"
    /\ \E name \in {"sf", "derived"} :
         /\ \/ heap' = SetItem(heap, FrameNamed(name).psd_dbm_per_hz, 1, Lit(5, 1))
            \/ heap' = SetKey(heap, FrameNamed(name).metadata, PyStr("site"),
                              PyStr("roof"))
            \/ \E it \in heap[FrameNamed(name).metadata].items :
                   /\ it[2].t = "ref"
                   /\ heap' = SetItem(heap, it[2].i, 1, Lit(5, 1))
         /\ frame_call' = [frame_call EXCEPT !.fn = "writes_through_" \o name]
    /\ UNCHANGED <<plan_vars, iq_call, eq_call, sf, derived, wire>>

HolderAssigns ==
    /\ frame_call.fn = "SpectrumFrame"
    /\ sf # NoFrame
    /\ frame_call' = [frame_call EXCEPT !.fn = "setattr",
                                        !.err = "FrozenInstanceError"]
    /\ UNCHANGED <<plan_vars, iq_call, eq_call, heap, sf, derived, wire>>

\* the invocations the threads make
ThreadCalls ==
    {Thread("next_pow2", PyInt(1000), PlanIdle.args, "check", Raise("none"),
            PlanRaise("none", 0), WelchRaise("none", 0)),
     Thread("next_5smooth", PyInt(2), PlanIdle.args, "check", Raise("none"),
            PlanRaise("none", 0), WelchRaise("none", 0)),
     Thread("plan_capture_parameters", PyNone,
            Args(Lit(10, 1), Lit(1000, 1), Lit(3000, 1), "hann", Lit(1, 2),
                 PyInt(4), "next_5smooth"),
            "check", Raise("none"), PlanRaise("none", 0), WelchRaise("none", 0)),
     Thread("plan_welch_parameters", PyNone,
            Args(Lit(10, 1), Lit(1000, 1), Lit(3000, 1), "rect", Lit(1, 4),
                 PyInt(4), "next_pow2"),
            "check", Raise("none"), PlanRaise("none", 0), WelchRaise("none", 0))}

InProgress(T) == T.pc \notin {"idle", "done"}

\* thread t calls one of the functions: the call gets fresh locals; the
\* threads are numbered in the order in which they make their calls
Invoke(t) ==
    /\ Quiet
    /\ threads[t].pc = "idle"
    /\ \A u \in 1..(t - 1) : threads[u].pc # "idle"
    /\ \E c \in ThreadCalls : threads' = [threads EXCEPT ![t] = c]
    /\ locals' = [locals EXCEPT ![Locals(t)] = NoLocals]
    /\ UNCHANGED <<size_call, plan_call, frame_vars, iq_call>>

\* thread t executes the next statement of its invocation
Step(t) ==
    /\ InProgress(threads[t])
    /\ \E s \in {Statement(threads[t], locals[Locals(t)])} :
         /\ threads' =
                [threads EXCEPT
                   ![t] = [s.t EXCEPT
                              !.overlapped =
                                  \/ threads[t].overlapped
                                  \/ \E u \in Tids \ {t} : InProgress(threads[u])]]
         /\ locals' = [locals EXCEPT ![Locals(t)] = s.l]
    /\ UNCHANGED <<size_call, plan_call, frame_vars, iq_call>>

\* the caller drops the results and is ready for the next call
Return ==
    /\ ~Idle
    /\ iq_call' = IqIdle
    /\ threads' = [t \in Tids |-> ThreadIdle]
    /\ locals' = [t \in Tids |-> NoLocals]
    /\ size_call' = SizeIdle
    /\ plan_call' = PlanIdle
    /\ frame_call' = FrameIdle
    /\ eq_call' = EqIdle
    /\ heap' = EmptyHeap
    /\ sf' = NoFrame
    /\ derived' = NoFrame
    /\ wire' = NoWire

Next ==
    \/ CallNextPow2
    \/ CallNext5Smooth
    \/ CallPlanCapture
    \/ CallPlanWelch
    \/ NewFrame
    \/ NewIQFrame
    \/ SliceBand
    \/ Encode
    \/ AlterEnvelope
    \/ Decode
    \/ Compare
    \/ CallerWrites
    \/ HolderWrites
    \/ HolderAssigns
    \/ WriteThrough
    \/ \E t \in Tids : Invoke(t)
    \/ \E t \in Tids : Step(t)
    \/ Return

Spec == Init /\ [][Next]_vars

\* ------------------------------------------------------------------------
\* Properties of concurrent invocations
\* ------------------------------------------------------------------------
\* what the invocation T returns or raises when it runs alone
Alone(T) ==
    [T EXCEPT
       !.pc = "done",
       !.size = CASE T.fn = "next_pow2" -> next_pow2(T.n_min)
                  [] T.fn = "next_5smooth" -> next_5smooth(T.n_min)
                  [] OTHER -> Raise("none"),
       !.capture = IF T.fn = "plan_capture_parameters"
                   THEN plan_capture_parameters(T.args) ELSE PlanRaise("none", 0),
       !.welch = IF T.fn = "plan_welch_parameters"
                 THEN plan_welch_parameters(T.args) ELSE WelchRaise("none", 0)]

\* C19: next_pow2, next_5smooth, plan_capture_parameters and
\* plan_welch_parameters may be invoked concurrently: however the statements
\* of the invocations interleave, each invocation that has finished returned
\* what it returns when it runs alone on its arguments.
C19_ConcurrentInvocations ==
    \A t \in Tids : threads[t].pc = "done" => threads[t] = Alone(threads[t])

\* two invocations of different planners with different FFT sizes ran
\* interleaved, and both have returned
C19_Witness ==
    \E t \in Tids, u \in Tids :
        /\ threads[t].pc = "done" /\ threads[u].pc = "done"
        /\ threads[t].overlapped /\ threads[u].overlapped
        /\ threads[t].fn = "plan_capture_parameters"
        /\ threads[u].fn = "plan_welch_parameters"
        /\ threads[t].capture.err = "none" /\ threads[u].welch.err = "none"
        /\ threads[u].welch.plan.nfft # locals[Locals(t)].nfft

\* ------------------------------------------------------------------------
\* Properties of the size strategies
\* ------------------------------------------------------------------------
RECURSIVE StripFactor(_, _)
StripFactor(n, p) == IF n % p = 0 THEN StripFactor(n \div p, p) ELSE n

\* n = 2^a * 3^b * 5^c for some a, b, c >= 0
Is5Smooth(n) == n >= 1 /\ StripFactor(StripFactor(StripFactor(n, 2), 3), 5) = 1

IsPow2(n) == n >= 1 /\ StripFactor(n, 2) = 1

\* a positive number with a finite value
PositiveFinite(v) == IsNumber(v) /\ GtZero(v) /\ IsFin(AsFloat(v))

\* max(1, ceil(v)) of a positive finite number
CeilTarget(v) ==
    LET c == IF v.t = "float" THEN Ceil(v.f) ELSE v.i
    IN  IF c > 1 THEN c ELSE 1

\* max(2, v) as a float
Max2(v) == IF FLt(FTwo, AsFloat(v)) THEN AsFloat(v) ELSE FTwo

C2_NextPow2Minimal ==
    size_call.fn = "next_pow2" =>
        LET v == size_call.n_min
            r == size_call.ret
        IN  /\ PositiveFinite(v) =>
                /\ r.ok
                /\ IsPow2(r.v)
                /\ FLe(Max2(v), FromInt(r.v))
                /\ (FLt(FromInt(r.v \div 2), Max2(v)) \/ r.v \div 2 < 2)
            /\ (IsNumber(v) /\ ~GtZero(v)) => r = Raise("ValueError")

\* next_5smooth was called with the int 1000
Called5SmoothOf1000 == size_call.fn = "next_5smooth" /\ size_call.n_min = PyInt(1000)

CalledDocExample ==
    plan_call.fn = "plan_capture_parameters" /\ plan_call.args = DocExample

\* C14: for rbw_hz 1000, fs_hz 2000000, bw_hz 20000000, hann, overlap 0.5,
\* K 8 and next_5smooth, plan_capture_parameters selects nfft = 3000 and
\* returns rbw_eff = 1000.0.
C14_DocExamplePlan ==
    CalledDocExample =>
        /\ plan_call.capture.err = "none"
        /\ plan_call.capture.plan.rbw_eff = Lit(1000, 1)
        /\ plan_call.capture.plan.samples =
               chunks(DocExample) * (3000 + (8 - 1) * (3000 - 1500))

C14_Witness ==
    /\ CalledDocExample
    /\ plan_call.capture.strategy_calls = 1
    /\ plan_call.capture.plan.sample_rate = Lit(2000000, 1)

\* C3: every plan returned by plan_capture_parameters has rbw_eff <= rbw_hz.
C3_RbwEffWithinTarget ==
    (plan_call.fn = "plan_capture_parameters" /\ plan_call.capture.err = "none") =>
        FLe(plan_call.capture.plan.rbw_eff, plan_call.args.rbw_hz)

\* the requests the planners are documented to serve
ValidRequest(a) ==
    /\ a.window \in Windows
    /\ FLe(FZero, a.overlap) /\ FLt(a.overlap, Fin(1, 0))
    /\ IsInt(a.K) /\ a.K.i >= 1
    /\ FLt(FZero, a.rbw_hz) /\ FLt(FZero, a.fs_hz) /\ FLt(FZero, a.bw_hz)

\* a request with one of the two strategies, and the size that strategy
\* gives for its nfft_min
Offered(a) == a.size_planner \in {"next_pow2", "next_5smooth"}

SizeFor(a) ==
    IF a.size_planner = "next_pow2" THEN next_pow2(PyFloat(nfft_min(a))).v
    ELSE next_5smooth(PyFloat(nfft_min(a))).v

\* plan_capture_parameters returned a plan for a documented request
CaptureDone ==
    /\ plan_call.fn = "plan_capture_parameters"
    /\ plan_call.capture.err = "none"
    /\ ValidRequest(plan_call.args)
    /\ Offered(plan_call.args)

\* C16: a returned capture plan has sample_rate = fs_hz, samples =
\* chunks * (nperseg + (K - 1) * step) with step = nperseg - floor(overlap *
\* nperseg) and chunks = max(1, ceil(bw_hz / fs_hz)), and time = samples / fs_hz.
C16_CapturePlanFields ==
    CaptureDone =>
        LET a == plan_call.args
            p == plan_call.capture.plan
            nperseg == SizeFor(a)
            step == nperseg - Floor(FMul(a.overlap, FromInt(nperseg)))
            c == Ceil(FDiv(a.bw_hz, a.fs_hz))
            n == (IF c > 1 THEN c ELSE 1) * (nperseg + (a.K.i - 1) * step)
        IN  /\ p.sample_rate = a.fs_hz
            /\ p.samples = n
            /\ p.time = FDiv(FromInt(n), a.fs_hz)

\* plan_welch_parameters returned a record for a documented request
WelchDone ==
    /\ plan_call.fn = "plan_welch_parameters"
    /\ plan_call.welch.err = "none"
    /\ ValidRequest(plan_call.args)
    /\ Offered(plan_call.args)

\* C17: a returned Welch record has the request's window, nfft the size the
\* strategy gives for ENBW[window] * fs_hz / rbw_hz, nperseg = nfft, noverlap =
\* floor(overlap * nperseg) with 0 <= noverlap < nperseg, scaling "density"
\* and average "mean".
C17_WelchRecordFields ==
    WelchDone =>
        LET a == plan_call.args
            p == plan_call.welch.plan
        IN  /\ p.window = a.window
            /\ p.nfft = SizeFor(a)
            /\ p.nperseg = p.nfft
            /\ p.noverlap = Floor(FMul(a.overlap, FromInt(p.nperseg)))
            /\ 0 <= p.noverlap /\ p.noverlap < p.nperseg
            /\ p.scaling = "density"
            /\ p.average = "mean"

\* a record for segments of odd length with half of each overlapping
C17_Witness ==
    /\ WelchDone
    /\ plan_call.args.overlap = Lit(1, 2)
    /\ plan_call.welch.plan.nperseg % 2 = 1
    /\ plan_call.welch.plan.noverlap > 0

\* C18: for a returned capture plan, rbw_eff = rbw_hz exactly when the
\* strategy returned nfft = nfft_min, and rbw_eff < rbw_hz otherwise.
C18_RbwEffEqualityCase ==
    CaptureDone =>
        LET a == plan_call.args
            p == plan_call.capture.plan
            exact == FromInt(SizeFor(a)) = nfft_min(a)
        IN  /\ (p.rbw_eff = a.rbw_hz) <=> exact
            /\ ~exact => FLt(p.rbw_eff, a.rbw_hz)

\* C20: with a size_planner name other than "next_pow2" and "next_5smooth",
\* and the other arguments valid, both planners raise ValueError and return
\* no plan.
C20_UnknownStrategyRefused ==
    (plan_call.fn # "idle" /\ ValidRequest(plan_call.args)
                          /\ ~Offered(plan_call.args)) =>
        /\ plan_call.capture.plan = NoPlan
        /\ plan_call.welch.plan = NoWelch
        /\ plan_call.fn = "plan_capture_parameters" =>
               plan_call.capture.err = "ValueError"
        /\ plan_call.fn = "plan_welch_parameters" =>
               plan_call.welch.err = "ValueError"

\* the arguments the validation is documented to refuse
BadArgs(a) ==
    \/ a.window \notin Windows
    \/ ~(FLe(FZero, a.overlap) /\ FLt(a.overlap, Fin(1, 0)))
    \/ ~(IsInt(a.K) /\ a.K.i >= 1)
    \/ FLe(a.rbw_hz, FZero)
    \/ FLe(a.fs_hz, FZero)
    \/ FLe(a.bw_hz, FZero)

\* C8: when window is unknown, overlap is outside [0, 1), K is not an integer
\* >= 1, or one of rbw_hz, fs_hz, bw_hz is <= 0, both planners raise ValueError,
\* return no plan, and have not invoked the size strategy.
C8_PlannersRejectBeforeStrategy ==
    (plan_call.fn # "idle" /\ BadArgs(plan_call.args)) =>
        /\ plan_call.capture.plan = NoPlan
        /\ plan_call.welch.plan = NoWelch
        /\ plan_call.fn = "plan_capture_parameters" =>
               plan_call.capture = PlanRaise("ValueError", 0)
        /\ plan_call.fn = "plan_welch_parameters" =>
               plan_call.welch = WelchRaise("ValueError", 0)

\* ------------------------------------------------------------------------
\* Properties of the frames
\* ------------------------------------------------------------------------
\* the frames that exist: the constructed one and the one derived from it
Frames == {fr \in {sf, derived} : fr # NoFrame}

\* the axis of frame fr is the one its PSD length, start and spacing define
AxisOf(fr) ==
    LET M == Len(heap[fr.psd_dbm_per_hz].vals)
        f == heap[fr.frequencies_hz].vals
        f0 == AsFloat(fr.f_start_hz)
        df == AsFloat(fr.rbw_hz)
    IN  /\ Len(f) = M
        /\ \A i \in 1..M : f[i] = FAdd(f0, FMul(df, FromInt(i - 1)))
        /\ \A i \in 1..(M - 1) : FLt(f[i], f[i + 1])
        /\ n_bins(heap, fr) = M
        /\ bin_df_hz(fr) = df
        /\ f_stop_hz(heap, fr) = FAdd(f0, FMul(df, FromInt(M - 1)))
        /\ f_center_hz(heap, fr) = FMul(Lit(1, 2), FAdd(f[1], f[M]))

\* PSD [0, -10, -20], rbw_hz 1, f_start_hz 100
IsRampAt100(fr) ==
    /\ heap[fr.psd_dbm_per_hz].vals = <<Lit(0, 1), Lit(-10, 1), Lit(-20, 1)>>
    /\ PyEq(fr.rbw_hz, PyInt(1))
    /\ PyEq(fr.f_start_hz, PyInt(100))

\* C5: every constructed frame with M PSD bins has M frequencies, entry i
\* equal to f_start_hz + rbw_hz * i and strictly increasing, n_bins = M,
\* bin_df_hz = rbw_hz, f_stop_hz = f_start_hz + rbw_hz * (M - 1), f_center_hz
\* the midpoint of first and last; PSD [0, -10, -20] at rbw 1 from 100 has the
\* axis [100, 101, 102], f_stop_hz 102 and f_center_hz 101.
C5_FrequencyAxis ==
    \A fr \in Frames :
        /\ AxisOf(fr)
        /\ IsRampAt100(fr) =>
               /\ heap[fr.frequencies_hz].vals =
                      <<Lit(100, 1), Lit(101, 1), Lit(102, 1)>>
               /\ f_stop_hz(heap, fr) = Lit(102, 1)
               /\ f_center_hz(heap, fr) = Lit(101, 1)

\* a frame of eight bins on an axis whose entries are all rounded sums
C5_Witness ==
    /\ frame_call.fn = "SpectrumFrame"
    /\ sf # NoFrame
    /\ n_bins(heap, sf) = 8
    /\ sf.rbw_hz = AxisTenths[1]
    /\ sf.f_start_hz = AxisTenths[2]

\* the indices of the source bins inside [low, high]
InBand(low, high) ==
    {i \in 1..n_bins(heap, sf) :
        /\ FLe(AsFloat(low), heap[sf.frequencies_hz].vals[i])
        /\ FLe(heap[sf.frequencies_hz].vals[i], AsFloat(high))}

\* C6: after a successful slice_band(low, high) the returned frame holds
\* exactly the source bins with low <= f <= high, in order and with their PSD
\* values, and every entry of its own frequencies_hz lies in [low, high].
C6_SliceBandWithinBounds ==
    (frame_call.fn = "slice_band" /\ frame_call.err = "none") =>
        LET idx == InBand(frame_call.f_low_hz, frame_call.f_high_hz)
            q == heap[derived.psd_dbm_per_hz].vals
            g == heap[derived.frequencies_hz].vals
        IN  /\ idx # {}
            /\ Len(q) = Cardinality(idx)
            /\ idx = Min(idx)..(Min(idx) + Len(q) - 1)
            /\ \A k \in 1..Len(q) :
                   q[k] = heap[sf.psd_dbm_per_hz].vals[Min(idx) + k - 1]
            /\ \A k \in 1..Len(g) :
                   /\ FLe(AsFloat(frame_call.f_low_hz), g[k])
                   /\ FLe(g[k], AsFloat(frame_call.f_high_hz))

\* slice_band was called with bounds it is documented to refuse, or with a
\* band that holds no bin of the source frame
Refusable(low, high) ==
    \/ ~IsFin(AsFloat(low))
    \/ ~IsFin(AsFloat(high))
    \/ FLe(AsFloat(high), AsFloat(low))
    \/ InBand(low, high) = {}

\* C15: slice_band(low, high) with low >= high, with a non-finite bound, or
\* with no bin of the frame in [low, high] raises ValueError and returns no
\* frame; the source frame and its arrays are as the constructor made them.
C15_SliceBandRefusals ==
    (frame_call.fn = "slice_band"
        /\ Refusable(frame_call.f_low_hz, frame_call.f_high_hz)) =>
        /\ frame_call.err = "ValueError"
        /\ derived = NoFrame
        /\ LET made == SpectrumFrame([EmptyHeap EXCEPT ![1] = heap[1],
                                                       ![2] = heap[2]],
                                     frame_call.args)
           IN  sf = made.frame /\ heap = made.heap

\* a call with proper bounds between which the frame has no bin
C15_Witness ==
    /\ frame_call.fn = "slice_band"
    /\ frame_call.err = "ValueError"
    /\ IsFin(AsFloat(frame_call.f_low_hz)) /\ IsFin(AsFloat(frame_call.f_high_hz))
    /\ FLt(AsFloat(frame_call.f_low_hz), AsFloat(frame_call.f_high_hz))
    /\ n_bins(heap, sf) = 8

\* the invariants a frame is documented to have, on the constructor's
\* arguments: the PSD object p and the scalars a
ValidArgs(p, a) ==
    /\ p.ndim = 1
    /\ Len(p.vals) >= 1
    /\ \A i \in 1..Len(p.vals) : IsFin(p.vals[i])
    /\ IsFin(AsFloat(a.rbw_hz)) /\ GtZero(a.rbw_hz)
    /\ ~LtOne(a.averages)
    /\ a.vbw_hz = PyNone \/ (IsFin(AsFloat(a.vbw_hz)) /\ GtZero(a.vbw_hz))
    /\ IsFin(AsFloat(a.f_start_hz))

\* C7: a SpectrumFrame is constructed only from a 1-D, non-empty, all-finite
\* PSD, a positive finite rbw_hz, averages >= 1, a vbw_hz that is absent or
\* positive finite, and a finite f_start_hz; with any of these violated the
\* constructor raises ValueError and leaves no frame and no object of its own.
C7_ConstructorInvariants ==
    frame_call.fn = "SpectrumFrame" =>
        /\ frame_call.err = "none" => ValidArgs(heap[1], frame_call.args)
        /\ ~ValidArgs(heap[1], frame_call.args) =>
               /\ frame_call.err = "ValueError"
               /\ sf = NoFrame
               /\ heap = [EmptyHeap EXCEPT ![1] = heap[1], ![2] = heap[2]]

\* a call refused for its vbw_hz alone
C7_Witness ==
    /\ frame_call.fn = "SpectrumFrame"
    /\ frame_call.err = "ValueError"
    /\ sf = NoFrame
    /\ frame_call.args.vbw_hz = PyFloat(NaN)
    /\ ValidArgs(heap[1], [frame_call.args EXCEPT !.vbw_hz = PyNone])
    /\ frame_call.args.f_start_hz = AxisUnit[2]

\* the objects a frame's fields refer to
FieldObjects(h, fr) ==
    <<h[fr.psd_dbm_per_hz], h[fr.metadata], h[fr.frequencies_hz]>>

\* C11: a step that keeps a constructed frame leaves every field of it as it
\* was, the contents of its PSD, metadata and frequencies_hz included, and in
\* every state the frame's PSD is all finite and as long as its frequencies_hz.
C11_FramesImmutable ==
    /\ [](\A fr \in Frames :
              /\ AllFinite(heap[fr.psd_dbm_per_hz].vals)
              /\ Len(heap[fr.frequencies_hz].vals) =
                     Len(heap[fr.psd_dbm_per_hz].vals))
    /\ [][(sf # NoFrame /\ sf' = sf) =>
              FieldObjects(heap', sf) = FieldObjects(heap, sf)]_vars

\* the scalar fields of frames a and b are equal
SameScalars(a, b) ==
    /\ PyEq(a.rbw_hz, b.rbw_hz)
    /\ PyEq(a.f_start_hz, b.f_start_hz)
    /\ PyEq(a.vbw_hz, b.vbw_hz)
    /\ PyEq(a.window, b.window)
    /\ PyEq(a.averages, b.averages)
    /\ PyEq(a.noise_floor_dbm_per_hz, b.noise_floor_dbm_per_hz)

\* the PSD arrays a and b have the same bins and agree on each within the
\* tolerance
AgreeBinByBin(a, b) ==
    /\ Len(a) = Len(b)
    /\ \A i \in 1..Len(a) : IsClose(a[i], b[i])

\* C12: x == y is true exactly when the PSD arrays of x and y agree bin by
\* bin within the tolerance and rbw_hz, f_start_hz, vbw_hz, window, averages
\* and noise_floor_dbm_per_hz are equal.
C12_EqualityByValue ==
    eq_call.fn = "__eq__" =>
        LET x == FrameNamed(eq_call.left)
            y == FrameNamed(eq_call.right)
        IN  (eq_call.err = "none" /\ eq_call.ret) <=>
                /\ AgreeBinByBin(heap[x.psd_dbm_per_hz].vals,
                                 heap[y.psd_dbm_per_hz].vals)
                /\ SameScalars(x, y)

\* the comparison returned True
ComparedEqual ==
    /\ eq_call.fn = "__eq__"
    /\ eq_call.err = "none"
    /\ eq_call.ret

\* C26: two frames that compare equal with == have the same number of bins
\* and identical frequencies_hz axes, with the same f_stop_hz and
\* f_center_hz; frames with PSD arrays of different lengths never compare
\* equal.
C26_EqualFramesSameAxis ==
    ComparedEqual =>
        /\ Len(heap[FrameNamed(eq_call.left).psd_dbm_per_hz].vals) =
               Len(heap[FrameNamed(eq_call.right).psd_dbm_per_hz].vals)
        /\ n_bins(heap, FrameNamed(eq_call.left)) =
               n_bins(heap, FrameNamed(eq_call.right))
        /\ heap[FrameNamed(eq_call.left).frequencies_hz].vals =
               heap[FrameNamed(eq_call.right).frequencies_hz].vals
        /\ f_stop_hz(heap, FrameNamed(eq_call.left)) =
               f_stop_hz(heap, FrameNamed(eq_call.right))
        /\ f_center_hz(heap, FrameNamed(eq_call.left)) =
               f_center_hz(heap, FrameNamed(eq_call.right))

\* ------------------------------------------------------------------------
\* Properties of the two planners together
\* ------------------------------------------------------------------------
\* both planners were called with the same arguments
BothCalled == plan_call.fn = "plan_capture_parameters, plan_welch_parameters"

\* C23: on the same arguments plan_capture_parameters and
\* plan_welch_parameters both fail or both succeed, and when they succeed
\* the capture plan's rbw_eff is ENBW[window] * fs_hz / nfft and its samples
\* is chunks * (nperseg + (K - 1) * (nperseg - noverlap)) for the nfft,
\* nperseg and noverlap of the Welch record.
C23_PlannersAgree ==
    BothCalled =>
        /\ (plan_call.capture.err = "none") <=> (plan_call.welch.err = "none")
        /\ (plan_call.capture.err = "none" /\ plan_call.welch.err = "none") =>
               /\ plan_call.capture.plan.rbw_eff =
                      FDiv(FMul(ENBW(plan_call.args.window), plan_call.args.fs_hz),
                           FromInt(plan_call.welch.plan.nfft))
               /\ plan_call.capture.plan.samples =
                      chunks(plan_call.args)
                      * (plan_call.welch.plan.nperseg
                         + (plan_call.args.K.i - 1)
                           * (plan_call.welch.plan.nperseg
                              - plan_call.welch.plan.noverlap))

\* a planner was called with arguments that pass the validation and name
\* one of the two strategies
Validated ==
    /\ plan_call.fn # "idle"
    /\ ValidRequest(plan_call.args)
    /\ Offered(plan_call.args)

\* C25: every input that passes the argument validation of a planner (known
\* window, overlap in [0, 1), integer K >= 1, positive rbw_hz, fs_hz, bw_hz,
\* known strategy) yields a plan from it.
C25_ValidatedInputYieldsPlan ==
    Validated =>
        /\ plan_call.fn # "plan_welch_parameters" =>
               plan_call.capture.err = "none"
        /\ plan_call.fn # "plan_capture_parameters" =>
               plan_call.welch.err = "none"

\* the request a with the power-of-two strategy in place of its own
WithPow2(a) == [a EXCEPT !.size_planner = "next_pow2"]

\* a planner returned a plan for a validated request with the 5-smooth
\* strategy
FiveSmoothPlanned ==
    /\ Validated
    /\ plan_call.args.size_planner = "next_5smooth"
    /\ plan_call.fn # "plan_welch_parameters" => plan_call.capture.err = "none"
    /\ plan_call.fn # "plan_capture_parameters" => plan_call.welch.err = "none"

\* C27: for every positive n_min, next_5smooth(n_min) <= next_pow2(n_min),
\* and with otherwise identical inputs the plan of the 5-smooth strategy has
\* neither a larger nfft nor more samples than the plan of the power-of-two
\* strategy.
C27_FiveSmoothNotLarger ==
    /\ (size_call.fn = "next_5smooth" /\ size_call.ret.ok
           /\ next_pow2(size_call.n_min).ok) =>
           size_call.ret.v <= next_pow2(size_call.n_min).v
    /\ (FiveSmoothPlanned /\ plan_call.fn # "plan_capture_parameters"
           /\ plan_welch_parameters(WithPow2(plan_call.args)).err = "none") =>
           plan_call.welch.plan.nfft <=
               plan_welch_parameters(WithPow2(plan_call.args)).plan.nfft
    /\ (FiveSmoothPlanned /\ plan_call.fn # "plan_welch_parameters"
           /\ plan_capture_parameters(WithPow2(plan_call.args)).err = "none") =>
           plan_call.capture.plan.samples <=
               plan_capture_parameters(WithPow2(plan_call.args)).plan.samples

\* ------------------------------------------------------------------------
\* Properties of IQFrame
\* ------------------------------------------------------------------------
\* IQFrame was called with numbers for fs_hz, center_freq_hz, impedance_ohm
IQCalled ==
    /\ iq_call.fn = "IQFrame"
    /\ IsNumber(iq_call.args.fs_hz)
    /\ IsNumber(iq_call.args.center_freq_hz)
    /\ IsNumber(iq_call.args.impedance_ohm)

\* the arguments meet the invariants of an IQFrame
IQValid(a) ==
    /\ Len(a.shape) \in {1, 2}
    /\ PositiveFinite(a.fs_hz)
    /\ PositiveFinite(a.center_freq_hz)
    /\ PositiveFinite(a.impedance_ohm)

\* C22: constructing an IQFrame succeeds only if samples has rank 1 or 2 and
\* fs_hz, center_freq_hz and impedance_ohm are positive and finite; a
\* violation raises ValueError and produces no frame; of a frame made,
\* n_channels is 1 for rank-1 samples and the size of the first dimension
\* otherwise, and n_samples is the size of the last dimension.
C22_IQFrameInvariants ==
    IQCalled =>
        /\ ~IQValid(iq_call.args) =>
               iq_call.err = "ValueError" /\ iq_call.frame = NoIQFrame
        /\ iq_call.err = "none" =>
               /\ IQValid(iq_call.args)
               /\ iq_call.frame.shape = iq_call.args.shape
               /\ iq_call.n_channels =
                      (IF Len(iq_call.args.shape) = 1 THEN 1
                       ELSE iq_call.args.shape[1])
               /\ iq_call.n_samples = iq_call.args.shape[Len(iq_call.args.shape)]

\* a frame was made of 2-D samples with more samples than channels
C22_Witness ==
    /\ IQCalled
    /\ iq_call.err = "none"
    /\ iq_call.args.shape = <<2, 4>>
    /\ iq_call.n_channels = 2
    /\ iq_call.n_samples = 4

\* what a holder of the frame fr reads from it: the PSD, the metadata with
\* the lists it holds, the frequency axis
View(h, fr) ==
    [psd_dbm_per_hz |-> h[fr.psd_dbm_per_hz].vals,
     metadata |-> {<<it[1], IF it[2].t = "ref" THEN h[it[2].i].vals ELSE it[2]>> :
                      it \in h[fr.metadata].items},
     frequencies_hz |-> h[fr.frequencies_hz].vals]

\* slice_band returned a frame
SliceReturned == frame_call.fn = "slice_band" /\ frame_call.err = "none"

\* the source is as the constructor made it, and the new frame starts at the
\* first retained bin, carries the source's other fields and a metadata of
\* equal content, and holds a PSD array and a dict of its own
SliceCopies ==
    SliceReturned =>
        /\ LET made == SpectrumFrame([EmptyHeap EXCEPT ![1] = heap[1],
                                                       ![2] = heap[2]],
                                     frame_call.args)
           IN  sf = made.frame /\ View(heap, sf) = View(made.heap, made.frame)
        /\ derived.f_start_hz =
               PyFloat(heap[sf.frequencies_hz].vals[
                           Min(InBand(frame_call.f_low_hz, frame_call.f_high_hz))])
        /\ derived.rbw_hz = sf.rbw_hz
        /\ derived.vbw_hz = sf.vbw_hz
        /\ derived.window = sf.window
        /\ derived.averages = sf.averages
        /\ derived.noise_floor_dbm_per_hz = sf.noise_floor_dbm_per_hz
        /\ heap[derived.metadata].items = heap[sf.metadata].items
        /\ derived.psd_dbm_per_hz # sf.psd_dbm_per_hz
        /\ derived.metadata # sf.metadata

\* a write through one of the two frames leaves what the other shows
WritesStayApart ==
    /\ frame_call'.fn = "writes_through_sf" =>
           View(heap', derived) = View(heap, derived)
    /\ frame_call'.fn = "writes_through_derived" =>
           View(heap', sf) = View(heap, sf)

\* C24: a successful slice_band leaves every field of the source unchanged
\* and returns a new frame whose f_start_hz is the frequency of the first
\* retained bin and whose rbw_hz, vbw_hz, window, averages,
\* noise_floor_dbm_per_hz and metadata content equal the source's; the new
\* frame shares neither PSD buffer nor metadata mapping with the source, and
\* a later change made through one frame is never visible through the other.
C24_SliceBandCopies ==
    /\ []SliceCopies
    /\ [][SliceReturned => WritesStayApart]_vars

\* ------------------------------------------------------------------------
\* Properties of the codec
\* ------------------------------------------------------------------------
\* the text the decoder was given is the encoder's output for sf
DecodedOwnOutput ==
    /\ frame_call.fn = "b64_to_spectrumframe"
    /\ wire = spectrumframe_to_b64(heap, sf, frame_call.level, frame_call.dtype).wire

\* |y - x| <= 2^-p * |x| for finite x and y: y is x rounded to p bits or closer
WithinBits(x, y, p) ==
    /\ IsFin(x) /\ IsFin(y)
    /\ LET e == IF x.e < y.e THEN x.e ELSE y.e
           xs == x.m * Pow(2, x.e - e)
           ys == y.m * Pow(2, y.e - e)
       IN  Abs(ys - xs) * Pow(2, p) <= Abs(xs)

\* C4: decoding the encoder's output for a valid frame, at any level 0..9 and
\* any floating storage dtype, succeeds and returns a frame with the same
\* rbw_hz, f_start_hz, vbw_hz, window, averages and noise_floor_dbm_per_hz
\* and a PSD of the same length with every value within the storage dtype's
\* precision of the original.
C4_CodecRoundTrip ==
    DecodedOwnOutput =>
        /\ frame_call.err = "none"
        /\ derived # NoFrame
        /\ SameScalars(sf, derived)
        /\ LET p == heap[sf.psd_dbm_per_hz].vals
               q == heap[derived.psd_dbm_per_hz].vals
           IN  /\ Len(q) = Len(p)
               /\ \A i \in 1..Len(p) :
                      WithinBits(p[i], q[i], SigBits(frame_call.dtype))

\* the decoder was given an envelope with a header object in it
DecodedHeader ==
    /\ frame_call.fn = "b64_to_spectrumframe"
    /\ wire.form = "object"
    /\ wire.has_header
    /\ wire.header_is_obj

\* C9: an envelope whose header.codec is not the string "zlib+npy" or whose
\* header.version is not the integer 1, absent ones included, is refused with
\* ValueError and no frame, whatever else it holds.
C9_CodecAndVersionChecked ==
    (DecodedHeader /\ (wire.header.codec # PyStr(CODEC_NAME)
                       \/ wire.header.version # PyInt(HEADER_VERSION))) =>
        /\ frame_call.err = "ValueError"
        /\ derived = NoFrame

\* the text is not JSON or not a JSON object, lacks header or data, or a
\* layer of its data field is damaged
Malformed(w) ==
    \/ w.form \in {"garbage", "array"}
    \/ ~w.has_header
    \/ ~w.has_data
    \/ w.data.junk
    \/ ~w.data.padded
    \/ w.data.comp # "ok"
    \/ w.data.npy # "ok"

\* C10: a text that is not JSON, not a JSON object, lacks header or data, or
\* whose base64, DEFLATE or .npy layer is corrupt or truncated, is refused with
\* ValueError and no frame.
C10_MalformedEnvelopeRefused ==
    (frame_call.fn = "b64_to_spectrumframe" /\ Malformed(wire)) =>
        /\ frame_call.err = "ValueError"
        /\ derived = NoFrame

\* v is no JSON number: absent or null values are judged by the caller
NotNumber(v) == v.t \notin {"int", "float"}

\* v is no number with an integer value
NotIntegerValued(v) ==
    \/ NotNumber(v)
    \/ v.t = "float" /\ (~IsFin(v.f) \/ FromInt(Trunc(v.f)) # v.f)

\* the header lacks a required field or holds a value of the wrong kind
BadHeaderFields(hd) ==
    \/ hd.rbw_hz = Absent \/ hd.f_start_hz = Absent \/ hd.averages = Absent
    \/ NotNumber(hd.rbw_hz)
    \/ NotNumber(hd.f_start_hz)
    \/ Get(hd.vbw_hz) # PyNone /\ NotNumber(hd.vbw_hz)
    \/ Get(hd.noise_floor_dbm_per_hz) # PyNone /\ NotNumber(hd.noise_floor_dbm_per_hz)
    \/ NotIntegerValued(hd.averages)

\* C21: an envelope whose header lacks rbw_hz, f_start_hz or averages, or
\* holds an rbw_hz or f_start_hz (or a non-null vbw_hz or
\* noise_floor_dbm_per_hz) that is not a number, or an averages that is not
\* integer-valued, is refused with ValueError and no frame.
C21_HeaderFieldsChecked ==
    (DecodedHeader /\ BadHeaderFields(wire.header)) =>
        /\ frame_call.err = "ValueError"
        /\ derived = NoFrame

====
